---------------------------- MODULE Spec2Model ----------------------------
(***************************************************************************)
(* Model of the op1 code-intelligence engine.                              *)
(*                                                                         *)
(* Part I  (specification Spec): the semantic-search Index Manager         *)
(*   (SemanticSearchIndex), its Merkle cache (MerkleCache) and its vector  *)
(*   store (VectorStore), as asynchronous operations that interleave at    *)
(*   their await points: updateIndex, rebuildIndex, ensureFresh + search,  *)
(*   and the watcher callback handleFileChanges.                           *)
(*                                                                         *)
(* Part II (specification SpecStore): the code-intel store (symbols,       *)
(*   edges, FTS rows, vectors) and the smart-query read path.              *)
(***************************************************************************)
EXTENDS Integers, Sequences, FiniteSets, TLC

(***************************************************************************)
(* Model sets and bounds                                                   *)
(***************************************************************************)
\* The MerkleCache objects a program makes, with new or with load.
CacheObjects == {"A", "B"}
\* Workspace paths matched by the include patterns.
Files == {"a.ts", "b.ts"}
\* File contents: 0 is a whitespace-only file, c > 0 a file with c symbols.
Contents == {0, 1, 2}
\* Number of file-system edits the environment performs.
MaxEdits == 1
\* Last instant of the clock (Date.now(), in units of half a cooldown).
MaxTime == 4
\* Number of operations (update, rebuild, search, watcher batch) started.
MaxCalls == 3
\* Number of SQLite statements of the vector store that fail.
MaxFaults == 1

\* Symbol ids, edge ids and branches of the code-intel store.
SymIds == {"s1", "s2"}
EdgeIds == {"e1", "e2"}
Branches == {"main", "feat"}
\* Symbol ids and edge ids of the call graphs that are traversed.
GraphSyms == {"n0", "n1", "n2", "n3", "n4"}
GraphEdgeIds == {"g1", "g2", "g3", "g4", "g5", "g6", "g7", "g8"}
\* Number of writes to the code-intel store.
MaxStoreOps == 4
\* Number of rows of the FTS table.
MaxFtsRows == 2

\* Asynchronous operations: u = updateIndex(), r = rebuildIndex(),
\* q = search() with its ensureFresh(), w = handleFileChanges().
Procs == {"u", "r", "q", "w"}
Upd == {"u", "r"}
\* The operations that call findChangedFiles.
Callers == {"u", "r", "q"}
\* Names for the replaced MerkleCache objects that calls in flight still use.
StaleIds == {1, 2}

\* config.autoRefresh (default true)
autoRefresh == TRUE
\* config.autoRefreshCooldownMs, in clock units
autoRefreshCooldownMs == 2
\* config.autoRefreshMaxFiles, scaled to the two-file workspace
autoRefreshMaxFiles == 2
\* config.parallelism, scaled to the two-file workspace
parallelism == 1

VARIABLES
  fs,               \* the workspace: path -> [ex, c, m], m the stat fingerprint
  edits,            \* edits performed so far
  now,              \* the last value read from Date.now()
  calls,            \* operations started so far
  faults,           \* store statements that have failed so far
  fileHashes,       \* MerkleCache.fileHashes: path -> [in, hash, m]
  cacheFile,        \* the Merkle cache file: [ex, files]
  store,            \* VectorStore: [open, chunks, vecs, rec]
  isIndexing,       \* SemanticSearchIndex.isIndexing
  lastRefreshCheck, \* SemanticSearchIndex.lastRefreshCheck
  pc,               \* position of each operation
  files,            \* the scanned file list of each operation
  job,              \* indexFile calls and their results: op -> path -> [ph, c]
  wl,               \* the watcher batch still to be handled (a sequence)
  res,              \* outcome of the last call of each operation
  ret,              \* {filesIndexed, chunksAdded} returned by updateIndex
  saved,            \* the call wrote the Merkle cache file
  scen,             \* the single-file-modification case seen by an update
  efErr,            \* a failure arose inside the current ensureFresh()
  efOut,            \* how the last ensureFresh() ended
  checkStart,       \* instant at which the last freshness check started
  stale,            \* replaced MerkleCache objects a running call still uses
  fcall,            \* findChangedFiles calls in flight: op -> [obj, hashes]
  want,             \* the classification by the cache as it was before the call
  symbols,          \* table symbols: id -> [in, branch, is_external]
  edges,            \* table edges: id -> [in, src, dst, branch, conf]
  ftsRows,          \* table fts_symbols: the rows' symbol ids, in rowid order
  jsVectors,        \* table js_vectors: the symbol ids that have an embedding
  storeOps,         \* store writes performed so far
  query,            \* the smart query in flight: [stage, branch, vec, kw]
  result,           \* the last QueryResult: [symbols, edges, tokenCount]
  filesTbl,         \* table files: file_path -> [in, branch, status, err]
  travOpt,          \* the parsed options of the traversal in progress
  travPc,           \* "idle", "run" (in the BFS loop) or "done" (returned)
  queue,            \* the BFS queue: <<[symbolId, depth], ...>>
  visited,          \* the visited set
  nodes,            \* symbol id -> depth in the result, -1 when not in it
  allEdges,         \* the edges of the result
  maxDepthReached,  \* stats.maxDepthReached
  truncatedNodes,   \* stats.truncatedNodes
  expanded,         \* symbol id -> number of times its edges were fetched
  followed,         \* symbol id -> the edges followed when it was expanded
  impact,           \* findTransitiveDependents: its results, then those of analyzeImpact
  ctxIn,            \* buildContextWithinBudget: lengths of the symbol contexts, maxTokens
  ctxOut,           \* its result: [done, n, tokenCount, length]
  kwResult,         \* the last KeywordSearcher.search call: [done, text, rows, raised]
  diffOut,          \* the last BranchDiffer.diff call and its result
  caches,           \* MerkleCache objects: name -> [made, entries, rootHash, dirty, fresh]
  cacheJson,        \* the file MerkleCache.save writes: [ex, rootHash, entries, fresh]
  cacheOps,         \* number of MerkleCache operations made
  embCache,         \* an EmbeddingCache: [keys, used, op, key, hit]
  isWatching,       \* FileWatcher.isWatching
  onChanges,        \* FileWatcher.onChanges is set
  pendingChanges,   \* FileWatcher.pendingChanges, in Map order: <<[filePath, type], ...>>
  debounceTimer,    \* FileWatcher.debounceTimer: the instant it is due, or NoTimer
  flushing,         \* the flushChanges calls suspended at await file.exists()
  clock,            \* the time, in units of half a debounce delay
  wLog,             \* what the watcher has seen and what it has delivered
  dropped           \* path -> "dropped" (a change of it was in a batch that
                    \* handleFileChanges skipped), "retried" (an update has
                    \* started since), or "no"

envVars == <<fs, edits, now, calls, faults>>
idxVars == <<fileHashes, cacheFile, store, isIndexing, lastRefreshCheck>>
opVars == <<pc, files, job, wl, res, ret, saved>>
obsVars == <<scen, efErr, efOut, checkStart>>
fcVars == <<stale, fcall, want>>
imVars == <<envVars, idxVars, opVars, obsVars, fcVars>>
tvVars == <<travOpt, travPc, queue, visited, nodes, allEdges, maxDepthReached,
            truncatedNodes, expanded, followed, impact>>
ctxVars == <<ctxIn, ctxOut>>
mkVars == <<caches, cacheJson, cacheOps>>
yVars == <<embCache>>
wtVars == <<isWatching, onChanges, pendingChanges, debounceTimer, flushing, clock, wLog>>
xVars == <<diffOut, mkVars, yVars, wtVars, dropped>>
ciRest == <<symbols, edges, ftsRows, jsVectors, storeOps, query, result, filesTbl, tvVars,
            ctxVars, kwResult, diffOut, mkVars, yVars, wtVars>>
ciVars == <<ciRest, dropped>>
vars == <<imVars, ciVars>>

(***************************************************************************)
(* Values                                                                  *)
(***************************************************************************)
NoFile == [ex |-> FALSE, c |-> 0, m |-> 0]
NoEntry == [in |-> FALSE, hash |-> 0, m |-> 0]
NoRec == [in |-> FALSE, hash |-> 0, n |-> 0]
NoJob == [ph |-> "none", c |-> 0]
NoScen == [on |-> FALSE, f |-> "a.ts", c |-> 0]
NoSym == [in |-> FALSE, branch |-> "main", is_external |-> FALSE]
NoEdge == [in |-> FALSE, src |-> "s1", dst |-> "s1", branch |-> "main", conf |-> 0]
NoQuery == [stage |-> "idle", branch |-> "main", vec |-> <<>>, kw |-> <<>>, maxTokens |-> 0]
EmptyResult == [symbols |-> <<>>, edges |-> {}, tokenCount |-> 0]
NoDiff == [done |-> FALSE, source |-> "main", target |-> "main", limit |-> 0,
           added |-> <<>>, removed |-> <<>>, modified |-> <<>>,
           summary |-> [added |-> 0, removed |-> 0, modified |-> 0, unchanged |-> 0],
           affectedFiles |-> {}]
\* A MerkleCache as its constructor leaves it; rootHash <<>> stands for null.
\* fresh records that rootHash was built from the entries as they are now.
NewCache == [made |-> TRUE, entries |-> <<>>, rootHash |-> <<>>, dirty |-> FALSE,
             fresh |-> FALSE]
\* An object that no constructor call has made yet.
NoCache == [made |-> FALSE, entries |-> <<>>, rootHash |-> <<>>, dirty |-> FALSE,
            fresh |-> FALSE]
\* An EmbeddingCache as its constructor leaves it.  keys is the Map in
\* insertion order; used lists the keys held from the least to the most
\* recently used (by a get hit or a set); op, key, hit describe the last call.
NewEmbeddingCache == [keys |-> <<>>, used |-> <<>>, op |-> "new", key |-> "", hit |-> FALSE]
\* debounceTimer = null
NoTimer == -1
\* The paths the watcher reports.
WatchPaths == {"a", "b"}
\* What the watcher has seen since the last flush (events: how many events
\* were queued in all; last: the instant of the latest one; seen: the types
\* queued for each path) and the batches handed to the callback.
NoWatchLog == [events |-> 0, last |-> 0, seen |-> [p \in WatchPaths |-> {}],
               delivered |-> <<>>]
NoCacheJson == [ex |-> FALSE, rootHash |-> <<>>, entries |-> <<>>, fresh |-> FALSE]
NoFileRec == [in |-> FALSE, branch |-> "main", status |-> "pending", err |-> FALSE]
NoContextInput == [lens |-> <<>>, maxTokens |-> 0]
NoImpact == [directDependents |-> 0, affectedSymbols |-> <<>>, hasPartialData |-> FALSE,
             hasStaleData |-> FALSE, risk |-> "none", confidence |-> "none"]
NoSearch == [done |-> FALSE, text |-> <<>>, rows |-> <<>>, raised |-> FALSE]
NoContext == [done |-> FALSE, n |-> 0, tokenCount |-> 0, length |-> 0]
NoOptions == [kind |-> "expand", root |-> "n0", callers |-> FALSE, branch |-> "main",
              requested |-> 0, maxDepth |-> 0, maxFanOut |-> 0, confidenceThreshold |-> 0]
EmptyCache == [f \in Files |-> NoEntry]
NoChanges == [added |-> {}, modified |-> {}, unchanged |-> {}]
\* No findChangedFiles call in flight; obj 0 is the current MerkleCache.
NoCall == [obj |-> 0, hashes |-> [f \in Files |-> 0]]
EmptyStore(isOpen) ==
  [open |-> isOpen, chunks |-> [f \in Files |-> <<>>], vecs |-> [f \in Files |-> <<>>],
   rec |-> [f \in Files |-> NoRec]]

\* MerkleCache.hashContent / chunker hashContent: a digest of the content.
\* Distinct contents have distinct digests; 0 stands for "no hash" (null).
hashContent(c) == c + 10

\* chunkCode: the number of chunks a content yields.
chunkCode(c) == c

(***************************************************************************)
(* MerkleCache                                                             *)
(***************************************************************************)
\* hashFile: the cache entry of path f after the call.
hashFileEntry(cache, f) ==
  IF ~fs[f].ex THEN cache[f]
  ELSE IF cache[f].in /\ cache[f].m = fs[f].m THEN cache[f]
  ELSE [in |-> TRUE, hash |-> hashContent(fs[f].c), m |-> fs[f].m]

\* hashFile: the hash returned for path f (0 when the file cannot be read).
hashFile(cache, f) ==
  IF ~fs[f].ex THEN 0
  ELSE IF cache[f].in /\ cache[f].m = fs[f].m THEN cache[f].hash
  ELSE hashContent(fs[f].c)

\* hashFiles: the cache after hashing every path of the list.
hashFiles(cache, paths) ==
  [f \in Files |-> IF f \in paths THEN hashFileEntry(cache, f) ELSE cache[f]]

\* hashFiles: the map of hashes it returns (0 for an unreadable path).
currentHashes(cache, paths) ==
  [f \in Files |-> IF f \in paths THEN hashFile(cache, f) ELSE 0]

\* findChangedFiles, after hashFiles has settled: each readable path is
\* compared with the entry the cache holds at that moment.
findChangedFiles(cache, hashes) ==
  LET readable == {f \in Files : hashes[f] # 0}
  IN [added |-> {f \in readable : ~cache[f].in},
      modified |-> {f \in readable : cache[f].in /\ cache[f].hash # hashes[f]},
      unchanged |-> {f \in readable : cache[f].in /\ cache[f].hash = hashes[f]}]

\* findDeletedFiles: cached paths that are not in the current list.
findDeletedFiles(cache, current) == {f \in Files : cache[f].in /\ f \notin current}

\* removeFile, for every path of a set.
removeFiles(cache, paths) ==
  [f \in Files |-> IF f \in paths THEN NoEntry ELSE cache[f]]

\* serialize: the persisted form of the cache.
serialize(cache) == [ex |-> TRUE, files |-> cache]

(***************************************************************************)
(* VectorStore                                                             *)
(***************************************************************************)
\* deleteFile, for every path of a set: vectors, chunk rows, file record.
deleteFiles(st, paths) ==
  [st EXCEPT !.vecs = [f \in Files |-> IF f \in paths THEN <<>> ELSE st.vecs[f]],
             !.chunks = [f \in Files |-> IF f \in paths THEN <<>> ELSE st.chunks[f]],
             !.rec = [f \in Files |-> IF f \in paths THEN NoRec ELSE st.rec[f]]]

isFileIndexed(st, f, h) == st.rec[f].in /\ st.rec[f].hash = h

\* insertChunks: the chunks of content c, with their vectors, in one transaction.
insertChunks(st, f, c) ==
  [st EXCEPT !.chunks[f] = Append(@, c), !.vecs[f] = Append(@, c)]

\* The statements of deleteFile run one after the other outside a
\* transaction: the vectors are deleted, then the chunk rows, then the file
\* record.  A statement that fails leaves what the earlier ones did.
FailStages == {1, 2}
deleteFileFailed(st, f, stage) ==
  [st EXCEPT !.vecs[f] = <<>>, !.chunks[f] = IF stage >= 2 THEN <<>> ELSE @]

markFileIndexed(st, f, h, n) == [st EXCEPT !.rec[f] = [in |-> TRUE, hash |-> h, n |-> n]]

\* Number of chunk rows stored for a path.
RECURSIVE rowCount(_)
rowCount(s) == IF s = <<>> THEN 0 ELSE chunkCode(Head(s)) + rowCount(Tail(s))

(***************************************************************************)
(* Initial state: a constructed and initialized index.  Either the         *)
(* workspace is new (empty store, no cache file), or it was indexed in an  *)
(* earlier session: initialize() has opened the database that holds the    *)
(* files' chunks and has loaded the cache file that holds their hashes.    *)
(***************************************************************************)
\* The cache that describes the workspace exactly.
cacheOf(w) ==
  [f \in Files |-> IF w[f].ex THEN [in |-> TRUE, hash |-> hashContent(w[f].c), m |-> w[f].m]
                   ELSE NoEntry]

\* The store that holds the chunks of every file of the workspace.
storeOf(w) ==
  [open |-> TRUE,
   chunks |-> [f \in Files |-> IF w[f].ex /\ chunkCode(w[f].c) > 0 THEN <<w[f].c>> ELSE <<>>],
   vecs |-> [f \in Files |-> IF w[f].ex /\ chunkCode(w[f].c) > 0 THEN <<w[f].c>> ELSE <<>>],
   rec |-> [f \in Files |-> IF w[f].ex /\ chunkCode(w[f].c) > 0
                            THEN [in |-> TRUE, hash |-> hashContent(w[f].c), n |-> chunkCode(w[f].c)]
                            ELSE NoRec]]

InitRest ==
  /\ fs = [f \in Files |-> [ex |-> TRUE, c |-> 1, m |-> 0]]
  /\ edits = 0
  /\ now = autoRefreshCooldownMs
  /\ calls = 0
  /\ faults = 0
  /\ \E resumed \in BOOLEAN :
       IF resumed
       THEN /\ fileHashes = cacheOf(fs)
            /\ cacheFile = serialize(cacheOf(fs))
            /\ store = storeOf(fs)
       ELSE /\ fileHashes = EmptyCache
            /\ cacheFile = [ex |-> FALSE, files |-> EmptyCache]
            /\ store = EmptyStore(TRUE)
  /\ isIndexing = FALSE
  /\ lastRefreshCheck = 0
  /\ pc = [p \in Procs |-> "idle"]
  /\ files = [p \in Procs |-> {}]
  /\ job = [p \in Procs |-> [f \in Files |-> NoJob]]
  /\ wl = <<>>
  /\ res = [p \in Procs |-> "none"]
  /\ ret = [p \in Upd |-> [filesIndexed |-> 0, chunksAdded |-> 0]]
  /\ saved = [p \in Upd |-> FALSE]
  /\ scen = [p \in Upd |-> NoScen]
  /\ efErr = FALSE
  /\ efOut = "none"
  /\ checkStart = -1
  /\ stale = [g \in StaleIds |-> EmptyCache]
  /\ fcall = [p \in Callers |-> NoCall]
  /\ want = [p \in Callers |-> NoChanges]
  /\ ftsRows = <<>>
  /\ jsVectors = {}
  /\ storeOps = 0
  /\ query = NoQuery
  /\ result = EmptyResult
  /\ filesTbl = [f \in {"x.ts", "y.ts"} |-> NoFileRec]
  /\ travOpt = NoOptions
  /\ travPc = "idle"
  /\ queue = <<>>
  /\ visited = {}
  /\ nodes = [i \in GraphSyms |-> -1]
  /\ allEdges = {}
  /\ maxDepthReached = 0
  /\ truncatedNodes = 0
  /\ expanded = [i \in GraphSyms |-> 0]
  /\ followed = [i \in GraphSyms |-> {}]
  /\ impact = NoImpact
  /\ ctxOut = NoContext
  /\ kwResult = NoSearch
  /\ diffOut = NoDiff
  /\ caches = [o \in CacheObjects |-> IF o = "A" THEN NewCache ELSE NoCache]
  /\ cacheJson = NoCacheJson
  /\ cacheOps = 0
  /\ embCache = NewEmbeddingCache
  /\ isWatching = FALSE
  /\ onChanges = FALSE
  /\ pendingChanges = <<>>
  /\ debounceTimer = NoTimer
  /\ flushing = <<>>
  /\ clock = 0
  /\ wLog = NoWatchLog
  /\ dropped = [f \in Files |-> "no"]

\* The state after construction: the code-intel store is empty.
Init ==
  /\ InitRest
  /\ symbols = [i \in SymIds |-> NoSym]
  /\ edges = [e \in EdgeIds |-> NoEdge]
  /\ ctxIn = NoContextInput

(***************************************************************************)
(* Environment                                                             *)
(***************************************************************************)
\* An editor writes a file (creating it if needed); the write gives the
\* file a modification time it never had.
WriteFile(f, c) ==
  /\ edits < MaxEdits
  /\ ~(fs[f].ex /\ fs[f].c = c)
  /\ fs' = [fs EXCEPT ![f] = [ex |-> TRUE, c |-> c, m |-> edits + 1]]
  /\ edits' = edits + 1
  /\ UNCHANGED <<now, calls, faults, idxVars, opVars, obsVars>>
  /\ dropped' = [dropped EXCEPT ![f] = "no"]
  /\ UNCHANGED <<fcVars, ciRest>>

\* A file is removed from the workspace.
RemoveFile(f) ==
  /\ edits < MaxEdits
  /\ fs[f].ex
  /\ fs' = [fs EXCEPT ![f] = NoFile]
  /\ edits' = edits + 1
  /\ UNCHANGED <<now, calls, faults, idxVars, opVars, obsVars>>
  /\ dropped' = [dropped EXCEPT ![f] = "no"]
  /\ UNCHANGED <<fcVars, ciRest>>

\* An operation is started.
startCall ==
  /\ calls < MaxCalls
  /\ calls' = calls + 1

(***************************************************************************)
(* SemanticSearchIndex.updateIndex (also the tail of rebuildIndex)         *)
(***************************************************************************)
\* The entry of updateIndex: the guard on isIndexing, then the flag is set
\* and the workspace scan is awaited.
updateIndexEntry(p) ==
  IF isIndexing
  THEN /\ pc' = [pc EXCEPT ![p] = "idle"]
       /\ res' = [res EXCEPT ![p] = "busy"]
       /\ UNCHANGED isIndexing
  ELSE /\ pc' = [pc EXCEPT ![p] = "scan"]
       /\ res' = [res EXCEPT ![p] = "none"]
       /\ isIndexing' = TRUE

\* update() is called.
UpdateCall ==
  /\ pc["u"] = "idle"
  /\ startCall
  /\ updateIndexEntry("u")
  /\ ret' = [ret EXCEPT !["u"] = [filesIndexed |-> 0, chunksAdded |-> 0]]
  /\ saved' = [saved EXCEPT !["u"] = FALSE]
  /\ scen' = [scen EXCEPT !["u"] = NoScen]
  /\ UNCHANGED <<fs, edits, now, faults, fileHashes, cacheFile, store, lastRefreshCheck,
                 files, job, wl, efErr, efOut, checkStart>>
  /\ dropped' = IF isIndexing THEN dropped
                ELSE [f \in Files |-> IF dropped[f] = "dropped" THEN "retried"
                                      ELSE dropped[f]]
  /\ UNCHANGED <<fcVars, ciRest>>

\* The glob scan of updateIndex completes (or throws).
UpdateScan(p) ==
  /\ p \in Upd
  /\ pc[p] = "scan"
  /\ \E ok \in BOOLEAN :
       IF ok
       THEN /\ files' = [files EXCEPT ![p] = {f \in Files : fs[f].ex}]
            /\ pc' = [pc EXCEPT ![p] = "hash"]
            /\ UNCHANGED <<isIndexing, res>>
       ELSE /\ pc' = [pc EXCEPT ![p] = "idle"]
            /\ res' = [res EXCEPT ![p] = "raised"]
            /\ isIndexing' = FALSE
            /\ UNCHANGED files
  /\ UNCHANGED <<envVars, fileHashes, cacheFile, store, lastRefreshCheck,
                 job, wl, ret, saved, obsVars>>
  /\ UNCHANGED <<fcVars, ciVars>>

\* The MerkleCache object a findChangedFiles call in flight works on.
cacheUsed(p) == IF fcall[p].obj = 0 THEN fileHashes ELSE stale[fcall[p].obj]

\* A findChangedFiles call returns: a replaced cache nothing uses any more
\* is dropped.
releaseCall(p) ==
  /\ fcall' = [fcall EXCEPT ![p] = NoCall]
  /\ want' = [want EXCEPT ![p] = NoChanges]
  /\ stale' = [g \in StaleIds |->
                 IF g = fcall[p].obj /\ \A o \in Callers \ {p} : fcall[o].obj # g
                 THEN EmptyCache ELSE stale[g]]

\* The classification by the state of the cache before the call.
classifyBefore(cache, paths) ==
  LET readable == {f \in paths : hashFile(cache, f) # 0}
  IN [added |-> {f \in readable : ~cache[f].in},
      modified |-> {f \in readable : cache[f].in /\ cache[f].hash # hashFile(cache, f)},
      unchanged |-> {f \in readable : cache[f].in /\ cache[f].hash = hashFile(cache, f)}]

\* The single-file-modification case: the store and the cache hold an earlier
\* version of exactly one scanned file; every other file is as it was cached.
oneModified(p, f) ==
  /\ \A o \in Procs \ {p} : pc[o] = "idle"
  /\ files[p] = {g \in Files : fs[g].ex}
  /\ f \in files[p]
  /\ chunkCode(fs[f].c) > 0
  /\ fileHashes[f].in /\ fileHashes[f].hash # hashContent(fs[f].c)
  /\ fileHashes[f].m # fs[f].m
  /\ store.rec[f].in /\ store.rec[f].hash = fileHashes[f].hash
  /\ \A g \in Files \ {f} :
        IF fs[g].ex
        THEN fileHashes[g] = [in |-> TRUE, hash |-> hashContent(fs[g].c), m |-> fs[g].m]
        ELSE ~fileHashes[g].in

\* hashFiles, awaited by findChangedFiles, has settled: every readable path
\* that missed the fast path has a fresh entry in the cache the call works on.
HashFilesDone(p) ==
  /\ p \in Callers
  /\ pc[p] = "hash"
  /\ LET cache == cacheUsed(p)
         after == hashFiles(cache, files[p])
     IN /\ IF fcall[p].obj = 0
           THEN fileHashes' = after /\ UNCHANGED stale
           ELSE stale' = [stale EXCEPT ![fcall[p].obj] = after] /\ UNCHANGED fileHashes
        /\ fcall' = [fcall EXCEPT ![p].hashes = currentHashes(cache, files[p])]
        /\ want' = [want EXCEPT ![p] = classifyBefore(cache, files[p])]
  /\ scen' = IF p \in Upd
             THEN [scen EXCEPT ![p] =
                     IF \E f \in Files : oneModified(p, f)
                     THEN LET f == CHOOSE g \in Files : oneModified(p, g)
                          IN [on |-> TRUE, f |-> f, c |-> fs[f].c]
                     ELSE NoScen]
             ELSE scen
  /\ pc' = [pc EXCEPT ![p] = "classify"]
  /\ UNCHANGED <<envVars, cacheFile, store, isIndexing, lastRefreshCheck,
                 files, job, wl, res, ret, saved, efErr, efOut, checkStart>>
  /\ UNCHANGED ciVars

\* Queue the first batch of indexFilesParallel: each indexFile call of the
\* batch runs up to its first await (reading the file).
startBatch(jobs, todo) ==
  LET n == IF Cardinality(todo) < parallelism THEN Cardinality(todo) ELSE parallelism
      batch == CHOOSE b \in SUBSET todo : Cardinality(b) = n
  IN [f \in Files |-> IF f \in batch THEN [ph |-> "read", c |-> 0]
                      ELSE IF f \in todo THEN [ph |-> "queued", c |-> 0]
                      ELSE jobs[f]]

\* findChangedFiles returns to updateIndex: deletions are applied, then
\* either the call returns (nothing to index) or the parallel indexing starts.
UpdateChanges(p) ==
  /\ p \in Upd
  /\ pc[p] = "classify"
  /\ releaseCall(p)
  /\ LET fc == findChangedFiles(cacheUsed(p), fcall[p].hashes)
         filesToIndex == fc.added \cup fc.modified
         deleted == findDeletedFiles(fileHashes, files[p])
     IN IF deleted # {} /\ ~store.open
        THEN \* store.deleteFile throws: finally, then the error propagates
             /\ pc' = [pc EXCEPT ![p] = "idle"]
             /\ res' = [res EXCEPT ![p] = "raised"]
             /\ isIndexing' = FALSE
             /\ UNCHANGED <<store, fileHashes, job>>
        ELSE /\ store' = deleteFiles(store, deleted)
             /\ fileHashes' = removeFiles(fileHashes, deleted)
             /\ IF filesToIndex = {}
                THEN \* early return {0, 0}; the finally block clears the flag
                     /\ pc' = [pc EXCEPT ![p] = "idle"]
                     /\ res' = [res EXCEPT ![p] = "ok"]
                     /\ isIndexing' = FALSE
                     /\ UNCHANGED job
                ELSE /\ pc' = [pc EXCEPT ![p] = "index"]
                     /\ job' = [job EXCEPT ![p] = startBatch(@, filesToIndex)]
                     /\ UNCHANGED <<res, isIndexing>>
  /\ UNCHANGED <<envVars, cacheFile, lastRefreshCheck, files, wl, ret, saved,
                 obsVars>>
  /\ UNCHANGED ciVars

(***************************************************************************)
(* SemanticSearchIndex.indexFile, indexFilesParallel and MerkleCache.save  *)
(***************************************************************************)
\* A finished indexFile call that produced n chunks is counted by updateIndex.
countResult(p, n) ==
  IF p \in Upd /\ n > 0
  THEN ret' = [ret EXCEPT ![p] = [filesIndexed |-> @.filesIndexed + 1,
                                  chunksAdded |-> @.chunksAdded + n]]
  ELSE UNCHANGED ret

\* The entry an indexFile call that returned n leaves in the results of
\* indexFilesParallel; handleFileChanges drops the value.
jobResult(p, n) == IF p = "w" THEN NoJob ELSE [ph |-> "done", c |-> n]

\* An indexFile call that rethrows its failure.
indexFileRethrow(p, f) ==
  /\ p # "w"
  /\ pc' = [pc EXCEPT ![p] = "idle"]
  /\ res' = [res EXCEPT ![p] = "raised"]
  /\ isIndexing' = FALSE
  /\ job' = [job EXCEPT ![p] = [g \in Files |-> NoJob]]

\* The catch block of indexFile: the failure is logged, the call returns 0.
indexFileCatch(p, f) ==
  /\ job' = [job EXCEPT ![p][f] = jobResult(p, 0)]
  /\ UNCHANGED <<pc, res, isIndexing>>

\* indexFile after the file has been read: the hash check, the deletion of the
\* old rows and the chunking; it then awaits the embedder.
IndexFileRead(p, f) ==
  /\ pc[p] = "index"
  /\ job[p][f].ph = "read"
  /\ LET c == fs[f].c
         h == hashContent(c)
     IN IF ~fs[f].ex \/ ~store.open
        THEN \* read or store error
             /\ indexFileCatch(p, f)
             /\ UNCHANGED store
        ELSE IF isFileIndexed(store, f, h)
        THEN \* already indexed: returns 0
             /\ job' = [job EXCEPT ![p][f] = jobResult(p, 0)]
             /\ UNCHANGED <<store, pc, res, isIndexing>>
        ELSE /\ store' = deleteFiles(store, {f})
             /\ job' = [job EXCEPT ![p][f] =
                          IF chunkCode(c) = 0 THEN jobResult(p, 0)
                          ELSE [ph |-> "embed", c |-> c]]
             /\ UNCHANGED <<pc, res, isIndexing>>
  /\ UNCHANGED <<envVars, fileHashes, cacheFile, lastRefreshCheck,
                 files, wl, ret, saved, obsVars>>
  /\ UNCHANGED <<fcVars, ciVars>>

\* indexFile after the embedder has answered (or thrown): the chunks are
\* inserted and the file is marked indexed.
IndexFileEmbed(p, f) ==
  /\ pc[p] = "index"
  /\ job[p][f].ph = "embed"
  /\ \E ok \in BOOLEAN :
       LET c == job[p][f].c
           n == chunkCode(c)
       IN IF ok /\ store.open
          THEN /\ store' = markFileIndexed(insertChunks(store, f, c), f, hashContent(c), n)
               /\ job' = [job EXCEPT ![p][f] = jobResult(p, n)]
               /\ countResult(p, n)
               /\ UNCHANGED <<pc, res, isIndexing>>
          ELSE \* embedder or store error
               /\ indexFileCatch(p, f)
               /\ UNCHANGED <<store, ret>>
  /\ UNCHANGED <<envVars, fileHashes, cacheFile, lastRefreshCheck,
                 files, wl, saved, obsVars>>
  /\ UNCHANGED <<fcVars, ciVars>>

\* MerkleCache.save is called: the cache is serialized and written.
saveEntry(p, ok) ==
  /\ cacheFile' = IF ok THEN serialize(fileHashes) ELSE cacheFile
  /\ saved' = IF p \in Upd THEN [saved EXCEPT ![p] = ok] ELSE saved
  /\ pc' = [pc EXCEPT ![p] = IF ok THEN "save" ELSE "savefail"]

\* indexFilesParallel: a batch has settled; the next batch starts, or the
\* results are returned and the cache is saved.
BatchDone(p) ==
  /\ p \in Procs \ {"w"}
  /\ pc[p] = "index"
  /\ \A f \in Files : job[p][f].ph \notin {"read", "embed"}
  /\ LET todo == {f \in Files : job[p][f].ph = "queued"}
     IN IF todo # {}
        THEN /\ job' = [job EXCEPT ![p] = startBatch(@, todo)]
             /\ UNCHANGED <<pc, cacheFile, saved>>
        ELSE /\ \E ok \in BOOLEAN : saveEntry(p, ok)
             /\ UNCHANGED job
  /\ UNCHANGED <<envVars, fileHashes, store, isIndexing, lastRefreshCheck,
                 files, wl, res, ret, obsVars>>
  /\ UNCHANGED <<fcVars, ciVars>>

\* A refresh that ignores the cooldown.
cooldownIgnored(t) == FALSE

\* The cooldown test of ensureFresh.
cooldownActive(t) == t - lastRefreshCheck < autoRefreshCooldownMs

\* A refresh whose failures reach the caller.
ensureFreshRethrow == "raised"

\* What the catch block of ensureFresh does with a failure.
ensureFreshCatch == "returned"

\* ensureFresh ends because of a failure inside its try block.
ensureFreshFails(p) ==
  /\ efErr' = TRUE
  /\ efOut' = ensureFreshCatch
  /\ IF ensureFreshCatch = "returned"
     THEN /\ pc' = [pc EXCEPT ![p] = "embed"]
          /\ UNCHANGED res
     ELSE /\ pc' = [pc EXCEPT ![p] = "idle"]
          /\ res' = [res EXCEPT ![p] = "raised"]

\* MerkleCache.save has settled: the operation that awaited it returns.
SaveDone(p) ==
  /\ pc[p] \in {"save", "savefail"}
  /\ LET ok == pc[p] = "save"
     IN CASE p \in Upd ->
               \* updateIndex returns its counts, or the write error propagates
               /\ pc' = [pc EXCEPT ![p] = "idle"]
               /\ res' = [res EXCEPT ![p] = IF ok THEN "ok" ELSE "raised"]
               /\ isIndexing' = FALSE
               /\ UNCHANGED <<efErr, efOut>>
          [] p = "q" ->
               \* ensureFresh: finally, then it returns or its catch block runs
               /\ isIndexing' = FALSE
               /\ IF ok
                  THEN /\ pc' = [pc EXCEPT ![p] = "embed"]
                       /\ efOut' = "returned"
                       /\ UNCHANGED <<res, efErr>>
                  ELSE ensureFreshFails(p)
          [] OTHER ->
               \* handleFileChanges resolves or rejects; nothing awaits it
               /\ pc' = [pc EXCEPT ![p] = "idle"]
               /\ UNCHANGED <<res, isIndexing, efErr, efOut>>
  /\ job' = [job EXCEPT ![p] = [f \in Files |-> NoJob]]
  /\ UNCHANGED <<envVars, fileHashes, cacheFile, store, lastRefreshCheck,
                 files, wl, ret, saved, scen, checkStart>>
  /\ UNCHANGED <<fcVars, ciVars>>

(***************************************************************************)
(* SemanticSearchIndex.ensureFresh and search                              *)
(***************************************************************************)
\* search() is called at instant t: ensureFresh runs up to its first await.
SearchCall(t) ==
  /\ pc["q"] = "idle"
  /\ startCall
  /\ t >= now
  /\ now' = t
  /\ res' = [res EXCEPT !["q"] = "none"]
  /\ efErr' = FALSE
  /\ IF ~autoRefresh \/ isIndexing \/ cooldownActive(t)
     THEN \* {checked: false}: the query embedding is awaited next
          /\ pc' = [pc EXCEPT !["q"] = "embed"]
          /\ efOut' = "skipped"
          /\ UNCHANGED <<lastRefreshCheck, checkStart>>
     ELSE /\ lastRefreshCheck' = t
          /\ checkStart' = t
          /\ pc' = [pc EXCEPT !["q"] = "scan"]
          /\ efOut' = "none"
  /\ UNCHANGED <<fs, edits, faults, fileHashes, cacheFile, store, isIndexing,
                 files, job, wl, ret, saved, scen>>
  /\ UNCHANGED <<fcVars, ciVars>>

\* The glob scan of ensureFresh completes (or throws, or exceeds the ceiling).
EnsureFreshScan ==
  /\ pc["q"] = "scan"
  /\ \E ok \in BOOLEAN :
       LET found == {f \in Files : fs[f].ex}
       IN IF ~ok
          THEN /\ ensureFreshFails("q")
               /\ UNCHANGED files
          ELSE IF Cardinality(found) > autoRefreshMaxFiles
          THEN /\ pc' = [pc EXCEPT !["q"] = "embed"]
               /\ efOut' = "returned"
               /\ UNCHANGED <<files, res, efErr>>
          ELSE /\ files' = [files EXCEPT !["q"] = found]
               /\ pc' = [pc EXCEPT !["q"] = "hash"]
               /\ UNCHANGED <<res, efErr, efOut>>
  /\ UNCHANGED <<envVars, idxVars, job, wl, ret, saved, scen, checkStart>>
  /\ UNCHANGED <<fcVars, ciVars>>

\* findChangedFiles returns to ensureFresh: it returns when nothing changed,
\* otherwise sets the flag, applies deletions and starts indexing.
EnsureFreshChanges ==
  /\ pc["q"] = "classify"
  /\ releaseCall("q")
  /\ LET fc == findChangedFiles(cacheUsed("q"), fcall["q"].hashes)
         filesToIndex == fc.added \cup fc.modified
         deleted == findDeletedFiles(fileHashes, files["q"])
     IN IF filesToIndex = {} /\ deleted = {}
        THEN /\ pc' = [pc EXCEPT !["q"] = "embed"]
             /\ efOut' = "returned"
             /\ UNCHANGED <<store, fileHashes, job, isIndexing, res, efErr>>
        ELSE IF deleted # {} /\ ~store.open
        THEN \* store.deleteFile throws: finally clears the flag, catch returns
             /\ isIndexing' = FALSE
             /\ ensureFreshFails("q")
             /\ UNCHANGED <<store, fileHashes, job>>
        ELSE /\ isIndexing' = TRUE
             /\ store' = deleteFiles(store, deleted)
             /\ fileHashes' = removeFiles(fileHashes, deleted)
             /\ job' = [job EXCEPT !["q"] = startBatch(@, filesToIndex)]
             /\ pc' = [pc EXCEPT !["q"] = "index"]
             /\ UNCHANGED <<res, efErr, efOut>>
  /\ UNCHANGED <<envVars, cacheFile, lastRefreshCheck, files, wl, ret, saved,
                 scen, checkStart>>
  /\ UNCHANGED ciVars

\* The query embedding arrives (or the embedder throws); the store is read.
SearchRead ==
  /\ pc["q"] = "embed"
  /\ pc' = [pc EXCEPT !["q"] = "idle"]
  /\ \E ok \in BOOLEAN :
       res' = [res EXCEPT !["q"] = IF ok /\ store.open THEN "ok" ELSE "raised"]
  /\ UNCHANGED <<envVars, idxVars, files, job, wl, ret, saved, obsVars>>
  /\ UNCHANGED <<fcVars, ciVars>>

(***************************************************************************)
(* SemanticSearchIndex.rebuildIndex                                        *)
(***************************************************************************)
\* rebuild() is called: the store is closed, the removal of the database
\* file is awaited.
RebuildCall ==
  /\ pc["r"] = "idle"
  /\ startCall
  /\ store' = [store EXCEPT !.open = FALSE]
  /\ pc' = [pc EXCEPT !["r"] = "rmdb"]
  /\ res' = [res EXCEPT !["r"] = "none"]
  /\ ret' = [ret EXCEPT !["r"] = [filesIndexed |-> 0, chunksAdded |-> 0]]
  /\ saved' = [saved EXCEPT !["r"] = FALSE]
  /\ scen' = [scen EXCEPT !["r"] = NoScen]
  /\ UNCHANGED <<fs, edits, now, faults, fileHashes, cacheFile, isIndexing, lastRefreshCheck,
                 files, job, wl, efErr, efOut, checkStart>>
  /\ UNCHANGED <<fcVars, ciVars>>

\* The database file is gone; a new empty MerkleCache replaces the old one
\* and the removal of the cache file is awaited.
RebuildRemoveDb ==
  /\ pc["r"] = "rmdb"
  /\ store' = EmptyStore(FALSE)
  /\ fileHashes' = EmptyCache
  /\ LET users == {p \in Callers : pc[p] \in {"hash", "classify"} /\ fcall[p].obj = 0}
         g == CHOOSE i \in StaleIds : \A p \in Callers : fcall[p].obj # i
     IN IF users = {}
        THEN UNCHANGED <<stale, fcall>>
        ELSE \* calls in flight keep working on the replaced object
             /\ stale' = [stale EXCEPT ![g] = fileHashes]
             /\ fcall' = [p \in Callers |->
                            IF p \in users THEN [fcall[p] EXCEPT !.obj = g] ELSE fcall[p]]
  /\ pc' = [pc EXCEPT !["r"] = "rmcache"]
  /\ UNCHANGED <<envVars, cacheFile, isIndexing, lastRefreshCheck,
                 files, job, wl, res, ret, saved, obsVars, want>>
  /\ UNCHANGED ciVars

\* The cache file is gone; a new VectorStore is created and its
\* initialization is awaited.
RebuildRemoveCache ==
  /\ pc["r"] = "rmcache"
  /\ cacheFile' = [ex |-> FALSE, files |-> EmptyCache]
  /\ pc' = [pc EXCEPT !["r"] = "init"]
  /\ UNCHANGED <<envVars, fileHashes, store, isIndexing, lastRefreshCheck,
                 files, job, wl, res, ret, saved, obsVars>>
  /\ UNCHANGED <<fcVars, ciVars>>

\* The new store is open; rebuildIndex calls updateIndex.
RebuildInit ==
  /\ pc["r"] = "init"
  /\ store' = [store EXCEPT !.open = TRUE]
  /\ updateIndexEntry("r")
  /\ UNCHANGED <<envVars, fileHashes, cacheFile, lastRefreshCheck,
                 files, job, wl, ret, saved, obsVars>>
  /\ UNCHANGED <<fcVars, ciVars>>

(***************************************************************************)
(* SemanticSearchIndex.handleFileChanges (the watcher callback)            *)
(***************************************************************************)
seqToSet(seq) == {seq[k] : k \in DOMAIN seq}

\* The store holds the index of the current content of file f.
indexedNow(f) ==
  \/ chunkCode(fs[f].c) = 0
  \/ isFileIndexed(store, f, hashContent(fs[f].c))

\* The batches the watcher can deliver: distinct paths in arrival order.
Batches ==
  {l \in UNION {[1..n -> Files] : n \in 1..Cardinality(Files)} :
     \A i, j \in DOMAIN l : i # j => l[i] # l[j]}

\* The loop of handleFileChanges up to its next await: unlink changes are
\* applied one after the other; the first other change stops the loop.
RECURSIVE handleUnlinks(_, _, _)
handleUnlinks(l, st, cache) ==
  IF l = <<>> \/ ~Head(l).unlink
  THEN [l |-> l, store |-> st, cache |-> cache, thrown |-> FALSE]
  ELSE IF ~st.open
  THEN [l |-> <<>>, store |-> st, cache |-> cache, thrown |-> TRUE]
  ELSE handleUnlinks(Tail(l), deleteFiles(st, {Head(l).f}), removeFiles(cache, {Head(l).f}))

\* handleFileChanges runs from list l to its next await: an indexFile call,
\* the save of the cache, or a store error that rejects the callback.
handleLoop(l) ==
  LET d == handleUnlinks(l, store, fileHashes)
  IN /\ store' = d.store
     /\ fileHashes' = d.cache
     /\ IF d.thrown
        THEN /\ pc' = [pc EXCEPT !["w"] = "idle"]
             /\ wl' = <<>>
             /\ UNCHANGED <<job, cacheFile>>
        ELSE IF d.l = <<>>
        THEN /\ \E ok \in BOOLEAN :
                  /\ cacheFile' = IF ok THEN serialize(d.cache) ELSE cacheFile
                  /\ pc' = [pc EXCEPT !["w"] = IF ok THEN "save" ELSE "savefail"]
             /\ wl' = <<>>
             /\ UNCHANGED job
        ELSE /\ job' = [job EXCEPT !["w"][Head(d.l).f] = [ph |-> "read", c |-> 0]]
             /\ wl' = Tail(d.l)
             /\ pc' = [pc EXCEPT !["w"] = "index"]
             /\ UNCHANGED cacheFile

\* The watcher delivers a batch of changes: skipped while isIndexing is set;
\* the files of a skipped batch that exist and are not indexed are noted.
HandleFileChanges(l) ==
  /\ pc["w"] = "idle"
  /\ startCall
  /\ IF isIndexing
     THEN /\ UNCHANGED <<pc, wl, job, store, fileHashes, cacheFile>>
          /\ dropped' = [f \in Files |->
                           IF f \in seqToSet(l) /\ fs[f].ex /\ ~indexedNow(f)
                           THEN "dropped" ELSE dropped[f]]
     ELSE /\ handleLoop([i \in DOMAIN l |-> [f |-> l[i], unlink |-> ~fs[l[i]].ex]])
          /\ UNCHANGED dropped
  /\ UNCHANGED <<fs, edits, now, faults, isIndexing, lastRefreshCheck, files, res, ret,
                 saved, obsVars>>
  /\ UNCHANGED <<fcVars, ciRest>>

\* An indexFile call of handleFileChanges has returned: the loop goes on.
HandleNext ==
  /\ pc["w"] = "index"
  /\ \A f \in Files : job["w"][f].ph = "none"
  /\ handleLoop(wl)
  /\ UNCHANGED <<envVars, isIndexing, lastRefreshCheck, files, res, ret, saved, obsVars>>
  /\ UNCHANGED <<fcVars, ciVars>>

(***************************************************************************)
(* Specification of the Index Manager                                      *)
(***************************************************************************)
Next ==
  \/ \E f \in Files, c \in Contents : WriteFile(f, c)
  \/ \E f \in Files : RemoveFile(f)
  \/ UpdateCall
  \/ \E p \in Upd : UpdateScan(p)
  \/ \E p \in Callers : HashFilesDone(p)
  \/ \E p \in Upd : UpdateChanges(p)
  \/ \E p \in Procs, f \in Files : IndexFileRead(p, f)
  \/ \E p \in Procs, f \in Files : IndexFileEmbed(p, f)
  \/ \E p \in Procs : BatchDone(p)
  \/ \E p \in Procs : SaveDone(p)
  \/ \E t \in 0..MaxTime : SearchCall(t)
  \/ EnsureFreshScan
  \/ EnsureFreshChanges
  \/ SearchRead
  \/ RebuildCall
  \/ RebuildRemoveDb
  \/ RebuildRemoveCache
  \/ RebuildInit
  \/ \E l \in Batches : HandleFileChanges(l)
  \/ HandleNext

Spec == Init /\ [][Next]_vars

(***************************************************************************)
(* The Index Manager on a store whose statements can fail: a statement of  *)
(* VectorStore.deleteFile throws after the earlier ones have run.          *)
(***************************************************************************)
\* A statement of the store fails.
storeFault ==
  /\ faults < MaxFaults
  /\ faults' = faults + 1

\* indexFile: deleteFile fails; the catch block of indexFile returns 0.
IndexFileReadFault(p, f, stage) ==
  /\ pc[p] = "index"
  /\ job[p][f].ph = "read"
  /\ fs[f].ex /\ store.open /\ ~isFileIndexed(store, f, hashContent(fs[f].c))
  /\ storeFault
  /\ store' = deleteFileFailed(store, f, stage)
  /\ indexFileCatch(p, f)
  /\ UNCHANGED <<fs, edits, now, calls, fileHashes, cacheFile,
                 lastRefreshCheck, files, wl, ret, saved, obsVars>>
  /\ UNCHANGED <<fcVars, ciVars>>

\* The deletion loop of updateIndex / ensureFresh when deleteFile fails on
\* path g after the paths of done have been removed.
deleteLoopFailed(done, g, stage) ==
  /\ store' = deleteFileFailed(deleteFiles(store, done), g, stage)
  /\ fileHashes' = removeFiles(fileHashes, done)

\* updateIndex: deleteFile fails in the deletion loop; finally clears the
\* flag and the error propagates.
UpdateChangesFault(p, g, stage) ==
  /\ p \in Upd
  /\ pc[p] = "classify"
  /\ store.open
  /\ g \in findDeletedFiles(fileHashes, files[p])
  /\ storeFault
  /\ releaseCall(p)
  /\ \E done \in SUBSET (findDeletedFiles(fileHashes, files[p]) \ {g}) :
       deleteLoopFailed(done, g, stage)
  /\ pc' = [pc EXCEPT ![p] = "idle"]
  /\ res' = [res EXCEPT ![p] = "raised"]
  /\ isIndexing' = FALSE
  /\ UNCHANGED <<fs, edits, now, calls, cacheFile, lastRefreshCheck, files, job,
                 wl, ret, saved, obsVars>>
  /\ UNCHANGED ciVars

\* ensureFresh: deleteFile fails in the deletion loop; finally clears the
\* flag and the catch block returns.
EnsureFreshChangesFault(g, stage) ==
  /\ pc["q"] = "classify"
  /\ store.open
  /\ g \in findDeletedFiles(fileHashes, files["q"])
  /\ storeFault
  /\ releaseCall("q")
  /\ \E done \in SUBSET (findDeletedFiles(fileHashes, files["q"]) \ {g}) :
       deleteLoopFailed(done, g, stage)
  /\ isIndexing' = FALSE
  /\ ensureFreshFails("q")
  /\ UNCHANGED <<fs, edits, now, calls, cacheFile, lastRefreshCheck, files, job,
                 wl, ret, saved, scen, checkStart>>
  /\ UNCHANGED ciVars

\* handleFileChanges: deleteFile fails on the k-th change of list l, an
\* unlink like the changes before it; the callback rejects.
handleLoopFault(l, k, stage) ==
  /\ k \in DOMAIN l
  /\ \A j \in 1..k : l[j].unlink
  /\ store.open
  /\ LET d == handleUnlinks(SubSeq(l, 1, k - 1), store, fileHashes)
     IN /\ store' = deleteFileFailed(d.store, l[k].f, stage)
        /\ fileHashes' = d.cache
  /\ pc' = [pc EXCEPT !["w"] = "idle"]
  /\ wl' = <<>>
  /\ UNCHANGED <<job, cacheFile>>

HandleFileChangesFault(l, k, stage) ==
  /\ pc["w"] = "idle"
  /\ startCall
  /\ ~isIndexing
  /\ storeFault
  /\ handleLoopFault([i \in DOMAIN l |-> [f |-> l[i], unlink |-> ~fs[l[i]].ex]], k, stage)
  /\ UNCHANGED <<fs, edits, now, isIndexing, lastRefreshCheck, files, res, ret,
                 saved, obsVars>>
  /\ UNCHANGED <<fcVars, ciVars>>

HandleNextFault(k, stage) ==
  /\ pc["w"] = "index"
  /\ \A f \in Files : job["w"][f].ph = "none"
  /\ storeFault
  /\ handleLoopFault(wl, k, stage)
  /\ UNCHANGED <<fs, edits, now, calls, isIndexing, lastRefreshCheck, files, res,
                 ret, saved, obsVars>>
  /\ UNCHANGED <<fcVars, ciVars>>

NextFaults ==
  \/ Next
  \/ \E p \in Procs, f \in Files, stage \in FailStages : IndexFileReadFault(p, f, stage)
  \/ \E p \in Upd, g \in Files, stage \in FailStages : UpdateChangesFault(p, g, stage)
  \/ \E g \in Files, stage \in FailStages : EnsureFreshChangesFault(g, stage)
  \/ \E l \in Batches, k \in 1..Cardinality(Files), stage \in FailStages :
       HandleFileChangesFault(l, k, stage)
  \/ \E k \in 1..Cardinality(Files), stage \in FailStages : HandleNextFault(k, stage)

SpecFaults == Init /\ [][NextFaults]_vars

(***************************************************************************)
(* Properties of the Index Manager                                         *)
(***************************************************************************)
\* An update or rebuild run: from the moment updateIndex sets the flag to
\* the moment it returns or raises.
indexingRun(p) ==
  p \in Upd /\ pc[p] \in {"scan", "hash", "classify", "index", "save", "savefail"}

\* C1: after a completed update, if exactly one indexed file is modified and
\* nothing else changes, the update that follows reports filesIndexed = 1 and
\* the store holds the chunks of the file's new content.
C1_OneModifiedFileReindexed ==
  [][\A p \in Upd :
       (res[p] # "ok" /\ res'[p] = "ok" /\ scen'[p].on
        /\ \A o \in Procs \ {p} : pc'[o] = "idle")
       => /\ ret'[p].filesIndexed = 1
          /\ store'.rec[scen'[p].f].hash = hashContent(scen'[p].c)
          /\ rowCount(store'.chunks[scen'[p].f]) = chunkCode(scen'[p].c)]_vars

\* C2: findChangedFiles classifies each file by the cache as it was before
\* the call: no entry means added, a different hash means modified, an equal
\* hash means unchanged.
C2_ClassifiedByCacheBeforeCall ==
  \A p \in Callers :
    pc[p] = "classify" =>
      findChangedFiles(cacheUsed(p), fcall[p].hashes) = want[p]

\* C3: an update or rebuild never starts an indexing run while another
\* update or rebuild run is in progress (it raises "already in progress").
C3_NoSecondRun ==
  [][\A p \in Upd :
       (pc[p] # "scan" /\ pc'[p] = "scan")
       => ~\E o \in Upd \ {p} : indexingRun(o)]_vars

\* C4: indexing a file is atomic: a step of indexFile on a file that has
\* chunks in the store, and whose content yields chunks, leaves the store
\* with the complete old rows or the complete new rows of that file.
C4_IndexFileAtomic ==
  [][\A p \in Procs, f \in Files :
       (job[p][f].ph = "read" /\ job'[p][f].ph # "read"
        /\ store.chunks[f] # <<>> /\ fs[f].ex /\ chunkCode(fs[f].c) > 0)
       => store'.chunks[f] \in {store.chunks[f], <<fs[f].c>>}]_vars

\* C6: every update or rebuild that returns successfully has written the
\* Merkle cache to the cache file during the call.
C6_SuccessfulUpdateSavedCache ==
  \A p \in Upd : res[p] = "ok" => saved[p]

\* C7: ensureFresh never starts its workspace scan while an update or
\* rebuild run is in progress.
C7_NoRefreshDuringRun ==
  [][(pc["q"] = "idle" /\ pc'["q"] = "scan")
       => ~\E o \in Upd : indexingRun(o)]_vars

\* C8: a search that calls ensureFresh less than the cooldown after the
\* previous freshness check started returns from it without scanning and
\* without modifying the cache, the cache file, the store or the flag.
C8_OneCheckPerCooldown ==
  [][(pc["q"] = "idle" /\ pc'["q"] # "idle"
      /\ checkStart >= 0 /\ now' - checkStart < autoRefreshCooldownMs)
       => /\ pc'["q"] = "embed"
          /\ UNCHANGED <<fileHashes, stale, cacheFile, store, isIndexing,
                         lastRefreshCheck, checkStart, files, job>>]_vars

\* C8 case: a search issued within the cooldown of a started check, with no
\* run in progress, has returned from ensureFresh unchecked.
C8_Witness ==
  /\ pc["q"] = "embed" /\ efOut = "skipped"
  /\ checkStart >= 0 /\ now - checkStart < autoRefreshCooldownMs
  /\ ~isIndexing

\* C9: no failure inside ensureFresh reaches the caller: after a failure
\* ensureFresh has returned and the query is reading, or has read, the store.
C9_RefreshFailureSwallowed ==
  /\ efOut # "raised"
  /\ efErr => (efOut = "returned" /\ pc["q"] \in {"embed", "idle"})

\* C9 case: a failure arose inside ensureFresh and the query went on to read
\* the store successfully.
C9_Witness ==
  efErr /\ pc["q"] = "idle" /\ res["q"] = "ok"

\* C11: for every file recorded as indexed, the recorded chunk count equals
\* the number of chunk rows stored for that file.
C11_RecordedCountMatchesRows ==
  \A f \in Files :
    store.rec[f].in => store.rec[f].n = rowCount(store.chunks[f])

\* C14: a failing indexFile call of an update leaves the run going (the
\* other calls and the flag are untouched, nothing is raised); the run
\* leaves the indexing phase only to save the cache, with a result for every
\* selected file; and once the cache is saved update() returns successfully.
C14_UpdateSurvivesFileFailure ==
  [][\A p \in Upd :
       /\ \A f \in Files :
            (job[p][f].ph \in {"read", "embed"} /\ job'[p][f].ph \notin {"read", "embed"}
             /\ ret'[p] = ret[p])
            => /\ pc'[p] = "index" /\ res'[p] = res[p] /\ isIndexing' = isIndexing
               /\ job'[p][f] = [ph |-> "done", c |-> 0]
               /\ \A g \in Files \ {f} : job'[p][g] = job[p][g]
       /\ (pc[p] = "index" /\ pc'[p] # "index")
            => /\ pc'[p] \in {"save", "savefail"}
               /\ \A f \in Files : job[p][f].ph \in {"none", "done"}
       /\ (pc[p] = "save" /\ pc'[p] # "save") => res'[p] = "ok"]_vars

\* C14 case: an update is returning successfully although the indexing of a
\* readable, non-empty file it selected has failed.
C14_Witness ==
  \E p \in Upd, f \in Files :
    /\ pc[p] = "save" /\ job[p][f] = [ph |-> "done", c |-> 0]
    /\ fs[f].ex /\ chunkCode(fs[f].c) > 0
    /\ store.open /\ ~store.rec[f].in

\* The store and the cache hold nothing for path f.
noDataOf(st, cache, f) ==
  /\ st.vecs[f] = <<>> /\ st.chunks[f] = <<>> /\ ~st.rec[f].in
  /\ ~cache[f].in

\* C13: when update() or auto-refresh applies the deletions, every file that
\* is in the cache but not in the file listing is removed as one unit: its
\* vectors, chunk rows, file record and cache entry are all gone, or, if the
\* removal failed, all as they were; they are gone whenever the step did not
\* fail.
C13_DeletedFilesRemovedAtomically ==
  [][\A p \in Callers :
       (pc[p] = "classify" /\ pc'[p] # "classify" /\ store.open)
       => \A f \in findDeletedFiles(fileHashes, files[p]) :
            /\ \/ noDataOf(store', fileHashes', f)
               \/ /\ store'.vecs[f] = store.vecs[f]
                  /\ store'.chunks[f] = store.chunks[f]
                  /\ store'.rec[f] = store.rec[f]
                  /\ fileHashes'[f] = fileHashes[f]
            /\ (IF p = "q" THEN ~efErr' ELSE res'[p] # "raised")
                 => noDataOf(store', fileHashes', f)]_vars

\* The indexFile calls in flight: the caller and the file of each.
indexFileCalls ==
  {c \in Procs \X Files : job[c[1]][c[2]].ph \in {"read", "embed"}}

\* C16: at any instant at most `parallelism` files are being indexed
\* concurrently.
C16_AtMostParallelismIndexed == Cardinality(indexFileCalls) <= parallelism

(***************************************************************************)
(* Part II: the code-intel store (symbols, edges, fts_symbols, js_vectors) *)
(* and the smart query that reads it.                                      *)
(***************************************************************************)
DEFAULT_MAX_TOKENS == 8000
DEFAULT_GRAPH_DEPTH == 2
DEFAULT_MAX_FAN_OUT == 10
\* Confidences are counted in tenths: 5 is 0.5.
DEFAULT_CONFIDENCE_THRESHOLD == 5
RETRIEVAL_LIMIT == 20
DEFAULT_K == 60
\* expandGraphForTopSymbols expands the first five symbols.
TopSymbols == 5

\* Confidences an extractor attaches to an edge (tenths).
Confidences == {3, 9}
\* The file a symbol id was extracted from (ids are content-derived).
fileOf(i) == IF i = "s1" THEN "x.ts" ELSE "y.ts"
SrcFiles == {fileOf(i) : i \in SymIds}
\* Row order of the symbols, nearest to the query embedding first.
SymOrder == <<"s1", "s2">>
\* estimateTokens(formatSymbolContext(symbol)) of each symbol.
contextTokens(i) == IF i = "s1" THEN 60 ELSE 90
CHARS_PER_TOKEN == 4
\* formatSymbolContext(symbol).length of each symbol.
contextLength(i) == contextTokens(i) * CHARS_PER_TOKEN

\* estimateTokens of a text of len characters: Math.ceil(len / 4).
estimateTokens(len) == (len + CHARS_PER_TOKEN - 1) \div CHARS_PER_TOKEN

\* truncateToTokens(text, maxTokens).length: the text when it fits, else its
\* first maxChars - 3 characters and "...".
truncateToTokens(len, maxTokens) ==
  LET maxChars == maxTokens * CHARS_PER_TOKEN
  IN IF len <= maxChars THEN len ELSE (maxChars - 3) + 3

\* The length of "\n\n---\n\n", which join puts between two parts.
SeparatorLength == 7
\* contextParts.join(separator).length for n parts of total length len.
joinLength(n, len) == IF n = 0 THEN 0 ELSE len + SeparatorLength * (n - 1)

\* A write to the store.
storeWrite ==
  /\ storeOps < MaxStoreOps
  /\ storeOps' = storeOps + 1

\* FOREIGN KEY ... ON DELETE CASCADE: the edges of deleted symbol rows go.
cascade(es, gone) ==
  [e \in EdgeIds |-> IF es[e].in /\ (es[e].src \in gone \/ es[e].dst \in gone)
                     THEN NoEdge ELSE es[e]]

\* SymbolStore.upsert: INSERT OR REPLACE by id; replacing deletes the old row.
SymbolUpsert(i, b, x) ==
  /\ storeWrite
  /\ symbols' = [symbols EXCEPT ![i] = [in |-> TRUE, branch |-> b, is_external |-> x]]
  /\ edges' = IF symbols[i].in THEN cascade(edges, {i}) ELSE edges
  /\ UNCHANGED <<ftsRows, jsVectors, query, result, imVars, filesTbl, tvVars, ctxVars, kwResult, xVars>>

\* SymbolStore.deleteByFilePath(filePath, branch).
SymbolDeleteByFilePath(f, b) ==
  /\ storeWrite
  /\ LET gone == {i \in SymIds : symbols[i].in /\ fileOf(i) = f /\ symbols[i].branch = b}
     IN /\ symbols' = [i \in SymIds |-> IF i \in gone THEN NoSym ELSE symbols[i]]
        /\ edges' = cascade(edges, gone)
  /\ UNCHANGED <<ftsRows, jsVectors, query, result, imVars, filesTbl, tvVars, ctxVars, kwResult, xVars>>

\* EdgeStore.upsert: INSERT OR REPLACE by id; the foreign keys require both
\* endpoint ids to be rows of symbols, otherwise the statement throws.
EdgeUpsert(e, src, dst, b, c) ==
  /\ storeWrite
  /\ edges' = IF symbols[src].in /\ symbols[dst].in
              THEN [edges EXCEPT ![e] = [in |-> TRUE, src |-> src, dst |-> dst,
                                         branch |-> b, conf |-> c]]
              ELSE edges
  /\ UNCHANGED <<symbols, ftsRows, jsVectors, query, result, imVars, filesTbl, tvVars, ctxVars, kwResult, xVars>>

\* KeywordStore.index: INSERT OR REPLACE into the FTS table, which has no key.
KeywordIndex(i) ==
  /\ storeWrite
  /\ Len(ftsRows) < MaxFtsRows
  /\ ftsRows' = Append(ftsRows, i)
  /\ UNCHANGED <<symbols, edges, jsVectors, query, result, imVars, filesTbl, tvVars, ctxVars, kwResult, xVars>>

\* KeywordStore.delete(symbolId).
KeywordDelete(i) ==
  /\ storeWrite
  /\ ftsRows' = SelectSeq(ftsRows, LAMBDA x : x # i)
  /\ UNCHANGED <<symbols, edges, jsVectors, query, result, imVars, filesTbl, tvVars, ctxVars, kwResult, xVars>>

\* VectorRepo.upsert(symbol_id, vector): one row per symbol id.
VectorUpsert(i) ==
  /\ storeWrite
  /\ jsVectors' = jsVectors \cup {i}
  /\ UNCHANGED <<symbols, edges, ftsRows, query, result, imVars, filesTbl, tvVars, ctxVars, kwResult, xVars>>

\* VectorRepo.delete(symbol_id).
VectorDelete(i) ==
  /\ storeWrite
  /\ jsVectors' = jsVectors \ {i}
  /\ UNCHANGED <<symbols, edges, ftsRows, query, result, imVars, filesTbl, tvVars, ctxVars, kwResult, xVars>>

(***************************************************************************)
(* The read path: vector search, keyword search, RRF fusion, hydration,    *)
(* graph expansion and context packing.                                    *)
(***************************************************************************)
firstN(seq, n) == SubSeq(seq, 1, IF Len(seq) < n THEN Len(seq) ELSE n)

\* VectorSearcher.search with a branch: js_vectors joined with symbols on the
\* branch, sorted by similarity, cut at the limit.
vectorSearch(b, limit) ==
  firstN(SelectSeq(SymOrder, LAMBDA i : i \in jsVectors /\ symbols[i].in
                                        /\ symbols[i].branch = b), limit)

\* KeywordSearcher.search: the FTS rows that match the text, best first; the
\* statement reads fts_symbols alone.
keywordSearch(limit) == firstN(firstN(ftsRows, limit * 2), limit)

\* The ids of a list in order of first appearance.
RECURSIVE distinctIds(_, _)
distinctIds(seq, seen) ==
  IF seq = <<>> THEN <<>>
  ELSE IF Head(seq) \in seen THEN distinctIds(Tail(seq), seen)
  ELSE <<Head(seq)>> \o distinctIds(Tail(seq), seen \cup {Head(seq)})

\* A common denominator of the contributions 1/(k + rank) of ranks 1..n.
RECURSIVE rrfScale(_)
rrfScale(n) == IF n = 0 THEN 1 ELSE (DEFAULT_K + n) * rrfScale(n - 1)

RECURSIVE sumOver(_, _, _, _)
sumOver(seq, i, k, scale) ==
  IF k > Len(seq) THEN 0
  ELSE (IF seq[k] = i THEN scale \div (DEFAULT_K + k) ELSE 0) + sumOver(seq, i, k + 1, scale)

\* computeRrfScores: the score of an id, as a multiple of 1/scale.
computeRrfScore(i, vec, kw) ==
  LET n == IF Len(vec) < Len(kw) THEN Len(kw) ELSE Len(vec)
  IN sumOver(vec, i, 1, rrfScale(n)) + sumOver(kw, i, 1, rrfScale(n))

\* sortByRrfScoreDescending: a stable sort, best score first.
RECURSIVE sortByScore(_, _, _)
sortByScore(seq, vec, kw) ==
  IF seq = <<>> THEN <<>>
  ELSE LET best == CHOOSE k \in DOMAIN seq :
                     /\ \A j \in DOMAIN seq :
                          computeRrfScore(seq[j], vec, kw) <= computeRrfScore(seq[k], vec, kw)
                     /\ \A j \in 1..(k - 1) :
                          computeRrfScore(seq[j], vec, kw) < computeRrfScore(seq[k], vec, kw)
           rest == [j \in 1..(Len(seq) - 1) |-> IF j < best THEN seq[j] ELSE seq[j + 1]]
       IN <<seq[best]>> \o sortByScore(rest, vec, kw)

\* fuseWithRrf: the ids of both lists, ordered by reciprocal-rank score.
fuseWithRrf(vec, kw) == sortByScore(distinctIds(vec \o kw, {}), vec, kw)

\* hydrateSymbols: getById for each fused id; ids without a row are dropped.
hydrateSymbols(fused) == SelectSeq(fused, LAMBDA i : symbols[i].in)

\* EdgeStore.getCallers / getCallees of a symbol in a branch.
getCallers(i, b) == {e \in DOMAIN edges : edges[e].in /\ edges[e].dst = i /\ edges[e].branch = b}
getCallees(i, b) == {e \in DOMAIN edges : edges[e].in /\ edges[e].src = i /\ edges[e].branch = b}

\* A filter that lets every edge through.
filterEdgesAnyConfidence(es, threshold) == es

filterEdgesByConfidence(es, threshold) == {e \in es : edges[e].conf >= threshold}

\* The order in which the store returns edge rows.
EdgeRows == <<"e1", "e2", "g1", "g2", "g3", "g4", "g5", "g6", "g7", "g8">>
rowOf(e) == CHOOSE k \in DOMAIN EdgeRows : EdgeRows[k] = e

\* The position of edge x after [...edges].sort((a, b) => b.confidence -
\* a.confidence): the sort is stable, equal confidences keep the row order.
sortedIndex(es, x) ==
  Cardinality({y \in es : \/ edges[y].conf > edges[x].conf
                          \/ edges[y].conf = edges[x].conf /\ rowOf(y) < rowOf(x)})

\* A limitEdges that slices without sorting.
limitEdgesUnsorted(es, maxFanOut) ==
  IF Cardinality(es) <= maxFanOut THEN es
  ELSE {x \in es : Cardinality({y \in es : rowOf(y) < rowOf(x)}) < maxFanOut}

\* limitEdges: all edges when there are at most maxFanOut of them, else the
\* first maxFanOut of the edges sorted by confidence descending.
limitEdges(es, maxFanOut) ==
  IF Cardinality(es) <= maxFanOut THEN es
  ELSE {x \in es : sortedIndex(es, x) < maxFanOut}

\* traverseCallers / traverseCallees, level by level: the symbols at the
\* current depth are expanded while the depth is below maxDepth.
RECURSIVE traverse(_, _, _, _, _, _)
traverse(callers, b, frontier, seen, depth, acc) ==
  IF frontier = {} \/ depth >= DEFAULT_GRAPH_DEPTH THEN acc
  ELSE LET adj(i) == limitEdges(filterEdgesByConfidence(
                       IF callers THEN getCallers(i, b) ELSE getCallees(i, b),
                       DEFAULT_CONFIDENCE_THRESHOLD), DEFAULT_MAX_FAN_OUT)
           es == UNION {adj(i) : i \in frontier}
           ends == {IF callers THEN edges[e].src ELSE edges[e].dst : e \in es} \ seen
           found == {i \in ends : symbols[i].in}
       IN traverse(callers, b, found, seen \cup ends, depth + 1,
                   [nodes |-> acc.nodes \cup found, edges |-> acc.edges \cup es])

\* GraphExpander.findCallers / findCallees from a root symbol.
findRelated(callers, i, b) ==
  traverse(callers, b, {i}, {i}, 0, [nodes |-> {i}, edges |-> {}])

\* expandGraphForTopSymbols: the hydrated symbols, then the symbols the
\* expansion of the first five reaches; the edges of all expansions.
expandGraphForTopSymbols(hydrated, b) ==
  LET top == {hydrated[k] : k \in DOMAIN firstN(hydrated, TopSymbols)}
      reached == UNION {findRelated(TRUE, i, b).nodes \cup findRelated(FALSE, i, b).nodes : i \in top}
      es == UNION {findRelated(TRUE, i, b).edges \cup findRelated(FALSE, i, b).edges : i \in top}
      have == {hydrated[k] : k \in DOMAIN hydrated}
  IN [symbols |-> hydrated \o SelectSeq(SymOrder, LAMBDA i : i \in reached \ have),
      edges |-> es]

\* buildContextWithinBudget: symbols are taken in order while they fit; the
\* first that does not fit is truncated into the remaining room if that
\* room exceeds 100 tokens.
RECURSIVE buildContextWithinBudget(_, _, _, _, _)
buildContextWithinBudget(lens, k, currentTokens, chars, maxTokens) ==
  IF k > Len(lens)
  THEN [n |-> Len(lens), tokenCount |-> currentTokens, length |-> joinLength(Len(lens), chars)]
  ELSE LET symbolTokens == estimateTokens(lens[k])
           remainingTokens == maxTokens - currentTokens
           truncated == truncateToTokens(lens[k], remainingTokens)
       IN IF currentTokens + symbolTokens > maxTokens
          THEN IF remainingTokens > 100
               THEN [n |-> k, tokenCount |-> currentTokens + estimateTokens(truncated),
                     length |-> joinLength(k, chars + truncated)]
               ELSE [n |-> k - 1, tokenCount |-> currentTokens,
                     length |-> joinLength(k - 1, chars)]
          ELSE buildContextWithinBudget(lens, k + 1, currentTokens + symbolTokens,
                                        chars + lens[k], maxTokens)

\* options.maxTokens: left out (-1), or a budget that holds one symbol context.
MaxTokensOptions == {-1, 100}

\* SmartQuery.search is called: the options are parsed, both retrievals run,
\* then their results are awaited.
SmartQueryStart(b, useEmbedding, useText, maxTokens) ==
  /\ query.stage = "idle"
  /\ IF ~useEmbedding /\ ~useText
     THEN /\ result' = EmptyResult
          /\ UNCHANGED query
     ELSE /\ query' = [stage |-> "fuse", branch |-> b,
                       vec |-> IF useEmbedding THEN vectorSearch(b, RETRIEVAL_LIMIT) ELSE <<>>,
                       kw |-> IF useText THEN keywordSearch(RETRIEVAL_LIMIT) ELSE <<>>,
                       maxTokens |-> IF maxTokens = -1 THEN DEFAULT_MAX_TOKENS
                                     ELSE maxTokens]
          /\ UNCHANGED result
  /\ UNCHANGED <<symbols, edges, ftsRows, jsVectors, storeOps, imVars, filesTbl, tvVars, ctxVars, kwResult, xVars>>

\* The retrievals have settled: fusion, hydration, expansion and packing.
SmartQueryFinish ==
  /\ query.stage = "fuse"
  /\ LET fused == fuseWithRrf(query.vec, query.kw)
         expansion == expandGraphForTopSymbols(hydrateSymbols(fused), query.branch)
         packed == buildContextWithinBudget(
                     [k \in DOMAIN expansion.symbols |-> contextLength(expansion.symbols[k])],
                     1, 0, 0, query.maxTokens)
     IN result' =
          IF fused = <<>> THEN EmptyResult
          ELSE [symbols |-> [k \in 1..packed.n |->
                               [id |-> expansion.symbols[k],
                                branch |-> symbols[expansion.symbols[k]].branch]],
                edges |-> {[id |-> e, branch |-> edges[e].branch] : e \in expansion.edges},
                tokenCount |-> packed.tokenCount]
  /\ query' = [NoQuery EXCEPT !.branch = query.branch]
  /\ UNCHANGED <<symbols, edges, ftsRows, jsVectors, storeOps, imVars, filesTbl, tvVars, ctxVars, kwResult, xVars>>

NextStore ==
  \/ \E i \in SymIds, b \in Branches, x \in BOOLEAN : SymbolUpsert(i, b, x)
  \/ \E f \in SrcFiles, b \in Branches : SymbolDeleteByFilePath(f, b)
  \/ \E e \in EdgeIds, src \in SymIds, dst \in SymIds, b \in Branches, c \in Confidences :
       EdgeUpsert(e, src, dst, b, c)
  \/ \E i \in SymIds : KeywordIndex(i)
  \/ \E i \in SymIds : KeywordDelete(i)
  \/ \E i \in SymIds : VectorUpsert(i)
  \/ \E i \in SymIds : VectorDelete(i)
  \/ \E b \in Branches, useEmbedding \in BOOLEAN, useText \in BOOLEAN,
        maxTokens \in MaxTokensOptions :
       SmartQueryStart(b, useEmbedding, useText, maxTokens)
  \/ SmartQueryFinish

SpecStore == Init /\ [][NextStore]_vars

(***************************************************************************)
(* FileStore: the files table (specification SpecFiles).                   *)
(***************************************************************************)
\* The values of FileRecord.status.
FileStatuses == {"pending", "indexing", "indexed", "error"}

\* FileStore.upsert: INSERT OR REPLACE by file_path, the key of the table.
FileUpsert(f, b, st, msg) ==
  /\ filesTbl' = [filesTbl EXCEPT ![f] = [in |-> TRUE, branch |-> b, status |-> st, err |-> msg]]
  /\ UNCHANGED <<symbols, edges, ftsRows, jsVectors, storeOps, query, result, imVars, tvVars, ctxVars, kwResult, xVars>>

\* FileStore.updateStatus: UPDATE ... WHERE file_path = ? AND branch = ?;
\* error_message becomes the message, or NULL when none is given.
FileUpdateStatus(f, b, st, msg) ==
  /\ filesTbl[f].in /\ filesTbl[f].branch = b
  /\ filesTbl' = [filesTbl EXCEPT ![f].status = st, ![f].err = msg]
  /\ UNCHANGED <<symbols, edges, ftsRows, jsVectors, storeOps, query, result, imVars, tvVars, ctxVars, kwResult, xVars>>

\* FileStore.deleteByPath(filePath, branch).
FileDeleteByPath(f, b) ==
  /\ filesTbl[f].in /\ filesTbl[f].branch = b
  /\ filesTbl' = [filesTbl EXCEPT ![f] = NoFileRec]
  /\ UNCHANGED <<symbols, edges, ftsRows, jsVectors, storeOps, query, result, imVars, tvVars, ctxVars, kwResult, xVars>>

NextFiles ==
  \/ \E f \in SrcFiles, b \in Branches, st \in FileStatuses, msg \in BOOLEAN :
       FileUpsert(f, b, st, msg)
  \/ \E f \in SrcFiles, b \in Branches, st \in FileStatuses, msg \in BOOLEAN :
       FileUpdateStatus(f, b, st, msg)
  \/ \E f \in SrcFiles, b \in Branches : FileDeleteByPath(f, b)

SpecFiles == Init /\ [][NextFiles]_vars

(***************************************************************************)
(* GraphExpander.findCallers / findCallees and ImpactAnalyzer.analyzeImpact *)
(* on a call graph (specification SpecGraph).                              *)
(***************************************************************************)
MAX_ALLOWED_DEPTH == 3
IMPACT_DEFAULT_MAX_DEPTH == 10
\* An option the caller left out.
Undefined == -1
\* The values the callers pass as maxDepth, maxFanOut, confidenceThreshold.
DepthOptions == {Undefined, 0, 1, 4}
FanOutOptions == {Undefined, 1, 2}
ThresholdOptions == {Undefined, 10}

\* The edges a call graph is drawn from: a chain n0 -> n1 -> n2 -> n3 -> n4,
\* a cycle back to n0, a self-call, and two more calls of n0.
GraphEdge(e) ==
  CASE e = "g1" -> [in |-> TRUE, src |-> "n0", dst |-> "n1", branch |-> "main", conf |-> 6,
                    updated_at |-> 1]
    [] e = "g2" -> [in |-> TRUE, src |-> "n1", dst |-> "n2", branch |-> "main", conf |-> 9,
                    updated_at |-> 1]
    [] e = "g3" -> [in |-> TRUE, src |-> "n2", dst |-> "n3", branch |-> "main", conf |-> 9,
                    updated_at |-> 1]
    [] e = "g4" -> [in |-> TRUE, src |-> "n3", dst |-> "n4", branch |-> "main", conf |-> 9,
                    updated_at |-> 1]
    [] e = "g5" -> [in |-> TRUE, src |-> "n2", dst |-> "n0", branch |-> "main", conf |-> 9,
                    updated_at |-> 1]
    [] e = "g6" -> [in |-> TRUE, src |-> "n1", dst |-> "n1", branch |-> "main", conf |-> 9,
                    updated_at |-> 1]
    [] e = "g7" -> [in |-> TRUE, src |-> "n0", dst |-> "n2", branch |-> "main", conf |-> 3,
                    updated_at |-> 1]
    [] e = "g8" -> [in |-> TRUE, src |-> "n0", dst |-> "n3", branch |-> "main", conf |-> 9,
                    updated_at |-> 1]

\* A store that holds the symbols n0..n4 and some of the edges g1..g8.
InitGraph ==
  /\ InitRest
  /\ symbols = [i \in GraphSyms |-> [in |-> TRUE, branch |-> "main", is_external |-> FALSE,
                                       updated_at |-> 1]]
  /\ \E present \in SUBSET GraphEdgeIds :
       edges = [e \in GraphEdgeIds |-> IF e \in present THEN GraphEdge(e) ELSE NoEdge]
  /\ ctxIn = NoContextInput

orDefault(v, d) == IF v = Undefined THEN d ELSE v
min(a, b) == IF a <= b THEN a ELSE b

\* parseOptions of the graph expander: maxDepth is capped.
parseOptions(root, callers, d, f, t) ==
  [kind |-> "expand", root |-> root, callers |-> callers, branch |-> "main",
   requested |-> d,
   maxDepth |-> min(orDefault(d, DEFAULT_GRAPH_DEPTH), MAX_ALLOWED_DEPTH),
   maxFanOut |-> orDefault(f, DEFAULT_MAX_FAN_OUT),
   confidenceThreshold |-> orDefault(t, DEFAULT_CONFIDENCE_THRESHOLD)]

\* parseOptions of the impact analyzer: callers only, no cap, no fan-out.
parseImpactOptions(root, d, t) ==
  [kind |-> "impact", root |-> root, callers |-> TRUE, branch |-> "main",
   requested |-> d,
   maxDepth |-> orDefault(d, IMPACT_DEFAULT_MAX_DEPTH),
   maxFanOut |-> Cardinality(GraphEdgeIds),
   confidenceThreshold |-> orDefault(t, DEFAULT_CONFIDENCE_THRESHOLD)]

\* The traversal is set up: the root is a node at depth 0, visited, queued.
traversalStart(o) ==
  /\ travOpt' = o
  /\ travPc' = "run"
  /\ queue' = <<[symbolId |-> o.root, depth |-> 0]>>
  /\ visited' = {o.root}
  /\ nodes' = [i \in GraphSyms |-> IF i = o.root THEN 0 ELSE -1]
  /\ allEdges' = {}
  /\ maxDepthReached' = 0
  /\ truncatedNodes' = 0
  /\ expanded' = [i \in GraphSyms |-> 0]
  /\ followed' = [i \in GraphSyms |-> {}]
  /\ impact' = NoImpact
  /\ UNCHANGED <<symbols, edges, ftsRows, jsVectors, storeOps, query, result, imVars, filesTbl, ctxVars, kwResult, xVars>>

\* findCallers / findCallees is called.
FindCallersOrCallees(root, callers, d, f, t) ==
  /\ travPc = "idle"
  /\ symbols[root].in
  /\ traversalStart(parseOptions(root, callers, d, f, t))

\* analyzeImpact is called.
AnalyzeImpact(root, d, t) ==
  /\ travPc = "idle"
  /\ symbols[root].in
  /\ traversalStart(parseImpactOptions(root, d, t))

\* A visited set that is never consulted.
visitedIgnored(v, i) == FALSE

\* visited.has(id)
visitedHas(v, i) == i \in v

\* A depth test that lets the nodes at maxDepth be expanded.
depthReachedLate(depth, maxDepth) == depth > maxDepth

\* The depth test at the head of the loop body.
depthReached(depth, maxDepth) == depth >= maxDepth

\* The symbols of s in the order the loop over the edges meets them.
RECURSIVE seqOfSyms(_)
seqOfSyms(s) ==
  IF s = {} THEN <<>>
  ELSE LET i == CHOOSE x \in s : TRUE
       IN <<i>> \o seqOfSyms(s \ {i})

\* One iteration of the while loop of traverseCallers / traverseCallees /
\* findTransitiveDependents: the head of the queue is taken and, below
\* maxDepth, its edges are fetched, filtered, limited and followed.
TraverseStep ==
  /\ travPc = "run"
  /\ queue # <<>>
  /\ LET current == Head(queue)
         o == travOpt
         fetched == IF o.callers THEN getCallers(current.symbolId, o.branch)
                    ELSE getCallees(current.symbolId, o.branch)
         filteredEdges == filterEdgesByConfidence(fetched, o.confidenceThreshold)
         limitedEdges == IF o.kind = "impact" THEN filteredEdges
                         ELSE limitEdges(filteredEdges, o.maxFanOut)
         endOf(e) == IF o.callers THEN edges[e].src ELSE edges[e].dst
         ends == {i \in {endOf(e) : e \in limitedEdges} : ~visitedHas(visited, i)}
         found == {i \in ends : symbols[i].in}
         nextDepth == current.depth + 1
         \* callerSymbol.updated_at > edge.updated_at for the edge that reached i
         staleVia(i) == \E e \in limitedEdges :
                          endOf(e) = i /\ symbols[i].updated_at > edges[e].updated_at
     IN IF depthReached(current.depth, o.maxDepth)
        THEN /\ queue' = Tail(queue)
             /\ impact' = IF o.kind = "impact"
                           THEN [impact EXCEPT !.hasPartialData = TRUE] ELSE impact
             /\ UNCHANGED <<visited, nodes, allEdges, maxDepthReached, truncatedNodes,
                            expanded, followed>>
        ELSE /\ queue' = Tail(queue) \o
                           [k \in 1..Cardinality(found) |->
                              [symbolId |-> seqOfSyms(found)[k], depth |-> nextDepth]]
             /\ visited' = visited \cup ends
             /\ nodes' = [i \in GraphSyms |-> IF i \in found THEN nextDepth ELSE nodes[i]]
             /\ allEdges' = allEdges \cup limitedEdges
             /\ maxDepthReached' = IF found # {} /\ nextDepth > maxDepthReached
                                   THEN nextDepth ELSE maxDepthReached
             /\ truncatedNodes' = IF Cardinality(filteredEdges) > o.maxFanOut
                                  THEN truncatedNodes + 1 ELSE truncatedNodes
             /\ expanded' = [expanded EXCEPT ![current.symbolId] = @ + 1]
             /\ followed' = [followed EXCEPT ![current.symbolId] = limitedEdges]
             /\ impact' =
                  IF o.kind # "impact" THEN impact
                  ELSE [impact EXCEPT
                          !.hasPartialData = @ \/ \E i \in ends : ~symbols[i].in,
                          !.hasStaleData = @ \/ \E i \in found : staleVia(i),
                          !.directDependents = IF nextDepth = 1 THEN @ + Cardinality(found)
                                               ELSE @,
                          !.affectedSymbols = @ \o [k \in 1..Cardinality(found) |->
                                                     [symbol |-> seqOfSyms(found)[k],
                                                      depth |-> nextDepth]]]
  /\ UNCHANGED <<travOpt, travPc>>
  /\ UNCHANGED <<symbols, edges, ftsRows, jsVectors, storeOps, query, result, imVars, filesTbl, ctxVars, kwResult, xVars>>

RISK_LOW_MAX == 3
RISK_MEDIUM_MAX == 10
RISK_HIGH_MAX == 25

calculateRiskLevel(dependentCount) ==
  IF dependentCount <= RISK_LOW_MAX THEN "low"
  ELSE IF dependentCount <= RISK_MEDIUM_MAX THEN "medium"
  ELSE IF dependentCount <= RISK_HIGH_MAX THEN "high"
  ELSE "critical"

determineConfidence(hasStaleData, hasPartialData) ==
  IF hasStaleData THEN "degraded" ELSE IF hasPartialData THEN "medium" ELSE "high"

\* The queue is empty: the loop ends and the result is returned.
TraverseReturn ==
  /\ travPc = "run"
  /\ queue = <<>>
  /\ travPc' = "done"
  /\ impact' = IF travOpt.kind # "impact" THEN impact
                ELSE [impact EXCEPT
                        !.risk = calculateRiskLevel(Len(impact.affectedSymbols)),
                        !.confidence = determineConfidence(impact.hasStaleData,
                                                           impact.hasPartialData)]
  /\ UNCHANGED <<travOpt, queue, visited, nodes, allEdges, maxDepthReached,
                 truncatedNodes, expanded, followed>>
  /\ UNCHANGED <<symbols, edges, ftsRows, jsVectors, storeOps, query, result, imVars, filesTbl, ctxVars, kwResult, xVars>>

NextGraph ==
  \/ \E root \in {"n0", "n4"}, callers \in BOOLEAN, d \in DepthOptions,
        f \in FanOutOptions, t \in ThresholdOptions :
       FindCallersOrCallees(root, callers, d, f, t)
  \/ \E root \in {"n0", "n4"}, d \in DepthOptions, t \in ThresholdOptions :
       AnalyzeImpact(root, d, t)
  \/ TraverseStep
  \/ TraverseReturn

SpecGraph == InitGraph /\ [][NextGraph]_vars

\* Impact analysis on a store in which some caller symbols were updated
\* after the edges were written.
InitImpact ==
  /\ InitRest
  /\ fileHashes = EmptyCache
  /\ \E newer \in SUBSET {"n1", "n2"} :
       symbols = [i \in GraphSyms |->
                    [in |-> TRUE, branch |-> "main", is_external |-> FALSE,
                     updated_at |-> IF i \in newer THEN 2 ELSE 1]]
  /\ \E present \in SUBSET GraphEdgeIds :
       edges = [e \in GraphEdgeIds |-> IF e \in present THEN GraphEdge(e) ELSE NoEdge]
  /\ ctxIn = NoContextInput

NextImpact ==
  \/ \E root \in {"n0", "n4"}, d \in DepthOptions, t \in ThresholdOptions :
       AnalyzeImpact(root, d, t)
  \/ TraverseStep
  \/ TraverseReturn

SpecImpact == InitImpact /\ [][NextImpact]_vars

\* The loop of a traversal runs without waiting: each iteration is taken.
SpecGraphFair == SpecGraph /\ WF_vars(TraverseStep) /\ WF_vars(TraverseReturn)

(***************************************************************************)
(* buildContextWithinBudget on given symbol contexts (specification        *)
(* SpecContext).                                                           *)
(***************************************************************************)
\* Lengths, in characters, of the formatted symbol contexts, and values of
\* options.maxTokens.
ContextLengths == {200, 400, 402, 1000}
MaxTokenOptions == {150, 200}
MaxSymbols == 3

InitContext ==
  /\ InitRest
  /\ symbols = [i \in SymIds |-> NoSym]
  /\ edges = [e \in EdgeIds |-> NoEdge]
  /\ \E n \in 1..MaxSymbols, maxTokens \in MaxTokenOptions :
       \E lens \in [1..n -> ContextLengths] :
         ctxIn = [lens |-> lens, maxTokens |-> maxTokens]

\* Step 5 of SmartQuery.search: the context is built within the budget.
BuildContext ==
  /\ ~ctxOut.done
  /\ LET r == buildContextWithinBudget(ctxIn.lens, 1, 0, 0, ctxIn.maxTokens)
     IN ctxOut' = [done |-> TRUE, n |-> r.n, tokenCount |-> r.tokenCount,
                   length |-> r.length]
  /\ UNCHANGED <<ctxIn, symbols, edges, ftsRows, jsVectors, storeOps, query, result,
                 imVars, filesTbl, tvVars, kwResult, xVars>>

NextContext == BuildContext

SpecContext == InitContext /\ [][NextContext]_vars

(***************************************************************************)
(* KeywordSearcher.search on query strings (specification SpecKeyword).    *)
(***************************************************************************)
\* A query string is a sequence of items: a word that occurs in the indexed
\* symbols, the characters the search escapes, a blank, and a character of
\* the FTS5 query syntax that it does not escape.
QueryItems == {"parse", "\"", "*", "(", ")", " ", ":"}
MaxQueryLen == 2
QueryTexts == UNION {[1..n -> QueryItems] : n \in 0..MaxQueryLen}
DEFAULT_LIMIT == 20

\* String.trim(): leading and trailing blanks are dropped.
RECURSIVE trimStart(_)
trimStart(q) == IF q # <<>> /\ Head(q) = " " THEN trimStart(Tail(q)) ELSE q
RECURSIVE trimEnd(_)
trimEnd(q) ==
  IF q # <<>> /\ q[Len(q)] = " " THEN trimEnd(SubSeq(q, 1, Len(q) - 1)) ELSE q
trim(q) == trimEnd(trimStart(q))

\* escapeQueryForFts5: query.replace(/[*"()]/g, " ").trim()
escapeQueryForFts5(q) ==
  trim([k \in DOMAIN q |-> IF q[k] \in {"*", "\"", "(", ")"} THEN " " ELSE q[k]])

\* Whether the MATCH of the statement fails with an FTS5 syntax error: the
\* query still holds a character of the query syntax.
ftsSyntaxError(q) == \E k \in DOMAIN q : q[k] \in {"*", "\"", "(", ")", ":"}

\* executeKeywordSearch: the rows that match, best first, at most limit; a
\* syntax error of the statement is caught and gives no rows.
executeKeywordSearch(escapedQuery, limit) ==
  IF ftsSyntaxError(escapedQuery) THEN <<>> ELSE firstN(ftsRows, limit)

\* KeywordSearcher.search(query).
keywordSearcherSearch(q, limit) ==
  LET escapedQuery == escapeQueryForFts5(q)
  IN IF escapedQuery = <<>> THEN <<>>
     ELSE firstN(executeKeywordSearch(escapedQuery, limit * 2), limit)

\* A keyword search is made with the query string q.
KeywordSearchCall(q) ==
  /\ kwResult' = [done |-> TRUE, text |-> q,
                  rows |-> keywordSearcherSearch(q, DEFAULT_LIMIT), raised |-> FALSE]
  /\ UNCHANGED <<symbols, edges, ftsRows, jsVectors, storeOps, query, result, imVars,
                 filesTbl, tvVars, ctxVars, xVars>>

NextKeyword ==
  \/ \E i \in SymIds : KeywordIndex(i)
  \/ \E i \in SymIds : KeywordDelete(i)
  \/ \E q \in QueryTexts : KeywordSearchCall(q)

SpecKeyword == Init /\ [][NextKeyword]_vars

(***************************************************************************)
(* BranchDiffer.diff on a symbols table that holds two branches            *)
(* (specification SpecDiff).                                               *)
(***************************************************************************)
\* The rows of the symbols table in the order a scan returns them.
DiffRows == <<"d1", "d2", "d3">>
DiffSyms == {DiffRows[k] : k \in DOMAIN DiffRows}
\* Qualified names: the file path, a colon, the name of the symbol.
QualifiedNames == {"fa:x", "fa:y", "fb:x"}
filePathOf(qn) == IF qn = "fb:x" THEN "fb" ELSE "fa"
ContentHashes == {1, 2}
DEFAULT_DIFF_LIMIT == 1000
\* The values the callers pass as options.limit.
LimitOptions == {Undefined, 1}

NoDiffSym == [in |-> FALSE, branch |-> "main", is_external |-> FALSE, updated_at |-> 1,
              qualified_name |-> "fa:x", content_hash |-> 1, file_path |-> "fa"]

\* The rows a symbols table can hold: a branch holds a qualified name once.
DiffSymbolRows ==
  {NoDiffSym} \cup
  {[in |-> TRUE, branch |-> b, is_external |-> FALSE, updated_at |-> 1,
    qualified_name |-> qn, content_hash |-> h, file_path |-> filePathOf(qn)] :
     b \in Branches, qn \in QualifiedNames, h \in ContentHashes}

InitDiff ==
  /\ InitRest
  /\ fileHashes = EmptyCache
  /\ symbols \in [DiffSyms -> DiffSymbolRows]
  /\ \A i, j \in DiffSyms :
       (i # j /\ symbols[i].in /\ symbols[j].in /\ symbols[i].branch = symbols[j].branch)
       => symbols[i].qualified_name # symbols[j].qualified_name
  /\ edges = [e \in EdgeIds |-> NoEdge]
  /\ ctxIn = NoContextInput

\* The row i is a symbol of branch b.
rowIn(i, b) == symbols[i].in /\ symbols[i].branch = b

\* addedSymbolsStmt / removedSymbolsStmt: the rows of branch a whose
\* qualified name no row of branch b has, at most limit of them.
symbolsOnlyIn(a, b, limit) ==
  firstN(SelectSeq(DiffRows,
                   LAMBDA i : /\ rowIn(i, a)
                              /\ ~\E j \in DiffSyms :
                                    /\ rowIn(j, b)
                                    /\ symbols[j].qualified_name = symbols[i].qualified_name),
         limit)

\* The pairs of rows in the order of the join.
RowPairs ==
  [k \in 1..(Len(DiffRows) * Len(DiffRows)) |->
     <<DiffRows[((k - 1) \div Len(DiffRows)) + 1], DiffRows[((k - 1) % Len(DiffRows)) + 1]>>]

\* The rows of the join of branch s with branch t on qualified_name.
joined(pr, s, t) ==
  /\ rowIn(pr[1], s) /\ rowIn(pr[2], t)
  /\ symbols[pr[1]].qualified_name = symbols[pr[2]].qualified_name

\* modifiedSymbolsStmt: the joined rows whose content hashes differ.
modifiedSymbolsStmt(s, t, limit) ==
  firstN(SelectSeq(RowPairs,
                   LAMBDA pr : /\ joined(pr, s, t)
                               /\ symbols[pr[1]].content_hash # symbols[pr[2]].content_hash),
         limit)

\* unchangedCountStmt
unchangedCountStmt(s, t) ==
  Cardinality({k \in DOMAIN RowPairs :
                 /\ joined(RowPairs[k], s, t)
                 /\ symbols[RowPairs[k][1]].content_hash
                      = symbols[RowPairs[k][2]].content_hash})

\* affectedFilesStmt: the files only one branch has symbols in, and the
\* files of the source symbols whose content hash differs in the target.
affectedFilesStmt(s, t) ==
  LET filesOnlyIn(a, b) ==
        {symbols[i].file_path : i \in {x \in DiffSyms :
           /\ rowIn(x, a)
           /\ ~\E j \in DiffSyms : rowIn(j, b) /\ symbols[j].file_path = symbols[x].file_path}}
      filesModified ==
        {symbols[RowPairs[k][1]].file_path : k \in {x \in DOMAIN RowPairs :
           /\ joined(RowPairs[x], s, t)
           /\ symbols[RowPairs[x][1]].content_hash # symbols[RowPairs[x][2]].content_hash}}
  IN filesOnlyIn(s, t) \cup filesOnlyIn(t, s) \cup filesModified

\* BranchDiffer.diff(sourceBranch, targetBranch, {limit}); the edges table
\* is empty, so both edge lists of the result are.
Diff(sourceBranch, targetBranch, lim) ==
  /\ LET limit == orDefault(lim, DEFAULT_DIFF_LIMIT)
         addedSymbols == symbolsOnlyIn(sourceBranch, targetBranch, limit)
         removedSymbols == symbolsOnlyIn(targetBranch, sourceBranch, limit)
         modifiedSymbols == modifiedSymbolsStmt(sourceBranch, targetBranch, limit)
     IN diffOut' = [done |-> TRUE, source |-> sourceBranch, target |-> targetBranch,
                    limit |-> limit,
                    added |-> addedSymbols, removed |-> removedSymbols,
                    modified |-> modifiedSymbols,
                    summary |-> [added |-> Len(addedSymbols),
                                 removed |-> Len(removedSymbols),
                                 modified |-> Len(modifiedSymbols),
                                 unchanged |-> unchangedCountStmt(sourceBranch,
                                                                  targetBranch)],
                    affectedFiles |-> affectedFilesStmt(sourceBranch, targetBranch)]
  /\ UNCHANGED <<symbols, edges, ftsRows, jsVectors, storeOps, query, result, imVars,
                 filesTbl, tvVars, ctxVars, kwResult, mkVars, yVars, wtVars, dropped>>

NextDiff ==
  \E s \in Branches, t \in Branches, lim \in LimitOptions : Diff(s, t, lim)

SpecDiff == InitDiff /\ [][NextDiff]_vars

(***************************************************************************)
(* MerkleCache objects: the map of file hashes in insertion order, the     *)
(* root hash and the dirty flag (specification SpecMerkle).                *)
(***************************************************************************)
\* Paths, in the order of localeCompare.
MerklePaths == <<"a", "b", "c">>
PathSet == {MerklePaths[k] : k \in DOMAIN MerklePaths}
pathRank(p) == CHOOSE k \in DOMAIN MerklePaths : MerklePaths[k] = p
\* Content hashes of files.
LeafHashes == {1, 2}
MaxCacheOps == 5
\* What hashFile finds on disk: no file, or a file with a content hash whose
\* mtime and size are those of the cached record or not.
DiskStates ==
  {[ex |-> FALSE, hash |-> 1, sameMeta |-> FALSE]} \cup
  {[ex |-> TRUE, hash |-> h, sameMeta |-> m] : h \in LeafHashes, m \in BOOLEAN}

\* The same for a file that was written since it was hashed, if it exists.
ChangedDiskStates == {d \in DiskStates : ~d.sameMeta}

\* Map.has, Map.set and Map.delete on a map kept in insertion order.
mapHas(es, p) == \E k \in DOMAIN es : es[k].path = p
mapSet(es, p, h) ==
  IF mapHas(es, p)
  THEN [k \in DOMAIN es |-> IF es[k].path = p THEN [path |-> p, hash |-> h] ELSE es[k]]
  ELSE Append(es, [path |-> p, hash |-> h])
mapDelete(es, p) == SelectSeq(es, LAMBDA e : e.path # p)

\* The entries as the map iterates them.
entriesInMapOrder(es) == es

\* Array.from(fileHashes.entries()).sort by path
RECURSIVE sortEntries(_)
sortEntries(es) ==
  IF es = <<>> THEN <<>>
  ELSE LET m == CHOOSE k \in DOMAIN es :
                  \A j \in DOMAIN es : pathRank(es[k].path) <= pathRank(es[j].path)
       IN <<es[m]>> \o sortEntries([k \in 1..(Len(es) - 1) |->
                                      IF k < m THEN es[k] ELSE es[k + 1]])

\* Digests are sequences of numbers: <<h>> is the digest of a file content,
\* hashOfEmpty is hashContent(""), and hashOfPair(l, r) is
\* hashContent(left.hash + right.hash).
hashOfEmpty == <<0, 3>>
hashOfPair(l, r) == <<0>> \o l \o r \o <<3>>

\* One pass of the for loop: the nodes are paired, the last one with itself
\* when their number is odd.
RECURSIVE nextLevel(_)
nextLevel(level) ==
  IF level = <<>> THEN <<>>
  ELSE IF Len(level) = 1 THEN <<hashOfPair(level[1], level[1])>>
  ELSE <<hashOfPair(level[1], level[2])>> \o nextLevel(SubSeq(level, 3, Len(level)))

\* The while loop: levels are built until one node is left.
RECURSIVE treeRoot(_)
treeRoot(level) == IF Len(level) = 1 THEN level[1] ELSE treeRoot(nextLevel(level))

\* buildTree: the cache after the call.
buildTree(c) ==
  LET sorted == sortEntries(c.entries)
      leaves == [k \in DOMAIN sorted |-> <<sorted[k].hash>>]
  IN IF sorted = <<>>
     THEN [c EXCEPT !.rootHash = hashOfEmpty, !.fresh = TRUE]
     ELSE [c EXCEPT !.rootHash = treeRoot(leaves), !.dirty = FALSE, !.fresh = TRUE]

\* removeFile sets the flag to the answer of Map.delete.
dirtyIsExisted(existed, dirty) == existed

\* removeFile: if (existed) this.dirty = true
dirtyAfterRemove(existed, dirty) == IF existed THEN TRUE ELSE dirty

\* hashFile: the cache after the call for path p, given what is on disk.
hashFileOn(c, p, d) ==
  IF ~d.ex THEN c
  ELSE IF mapHas(c.entries, p) /\ d.sameMeta THEN c
  ELSE [c EXCEPT !.entries = mapSet(c.entries, p, d.hash), !.dirty = TRUE,
                 !.fresh = FALSE]

\* deserialize: a new cache that holds what the file holds.
deserialize(json) ==
  [made |-> TRUE, entries |-> json.entries, rootHash |-> json.rootHash, dirty |-> FALSE,
   fresh |-> json.fresh]

cacheStep(o, c) ==
  /\ caches[o].made
  /\ cacheOps < MaxCacheOps
  /\ cacheOps' = cacheOps + 1
  /\ caches' = [caches EXCEPT ![o] = c]

mkFrame ==
  UNCHANGED <<symbols, edges, ftsRows, jsVectors, storeOps, query, result, imVars,
              filesTbl, tvVars, ctxVars, kwResult, diffOut, yVars, wtVars, dropped>>

BuildTree(o) ==
  /\ cacheStep(o, buildTree(caches[o]))
  /\ UNCHANGED cacheJson
  /\ mkFrame

\* getRootHash: the tree is rebuilt if the cache is dirty or has no root.
GetRootHash(o) ==
  /\ cacheStep(o, IF caches[o].dirty \/ caches[o].rootHash = <<>>
                  THEN buildTree(caches[o]) ELSE caches[o])
  /\ UNCHANGED cacheJson
  /\ mkFrame

CacheUpdateFile(o, p, h) ==
  /\ cacheStep(o, [caches[o] EXCEPT !.entries = mapSet(@, p, h), !.dirty = TRUE,
                                    !.fresh = FALSE])
  /\ UNCHANGED cacheJson
  /\ mkFrame

CacheRemoveFile(o, p) ==
  /\ cacheStep(o, [caches[o] EXCEPT
                     !.entries = mapDelete(@, p),
                     !.dirty = dirtyAfterRemove(mapHas(caches[o].entries, p), @),
                     !.fresh = @ /\ ~mapHas(caches[o].entries, p)])
  /\ UNCHANGED cacheJson
  /\ mkFrame

CacheHashFile(o, p, d) ==
  /\ cacheStep(o, hashFileOn(caches[o], p, d))
  /\ UNCHANGED cacheJson
  /\ mkFrame

\* findChangedFiles([p1, p2]): hashFiles hashes both paths.
FindChangedFiles(o, p1, d1, p2, d2) ==
  /\ p1 # p2
  /\ cacheStep(o, hashFileOn(hashFileOn(caches[o], p1, d1), p2, d2))
  /\ UNCHANGED cacheJson
  /\ mkFrame

\* save: the serialized cache is written.
CacheSave(o) ==
  /\ cacheStep(o, caches[o])
  /\ cacheJson' = [ex |-> TRUE, rootHash |-> caches[o].rootHash,
                   entries |-> caches[o].entries, fresh |-> caches[o].fresh]
  /\ mkFrame

\* load: a cache object is made from the file, or empty if there is no file.
CacheLoad(o) ==
  /\ ~caches[o].made
  /\ cacheOps < MaxCacheOps
  /\ cacheOps' = cacheOps + 1
  /\ caches' = [caches EXCEPT ![o] = IF cacheJson.ex THEN deserialize(cacheJson)
                                     ELSE NewCache]
  /\ UNCHANGED cacheJson
  /\ mkFrame

\* A program that has made one empty cache with new.
InitMerkle == Init /\ fileHashes = EmptyCache

NextMerkle ==
  \/ \E o \in CacheObjects, p \in PathSet, h \in LeafHashes : CacheUpdateFile(o, p, h)
  \/ \E o \in CacheObjects, p \in PathSet, d \in DiskStates : CacheHashFile(o, p, d)
  \/ \E o \in CacheObjects, p \in PathSet : CacheRemoveFile(o, p)
  \/ \E o \in CacheObjects, p1, p2 \in PathSet, d1, d2 \in ChangedDiskStates :
       FindChangedFiles(o, p1, d1, p2, d2)
  \/ \E o \in CacheObjects : GetRootHash(o)
  \/ \E o \in CacheObjects : BuildTree(o)
  \/ \E o \in CacheObjects : CacheSave(o)
  \/ \E o \in CacheObjects : CacheLoad(o)

SpecMerkle == InitMerkle /\ [][NextMerkle]_vars

(***************************************************************************)
(* EmbeddingCache: the Map of embeddings kept by the embedders             *)
(* (specification SpecEmbeddingCache).                                     *)
(***************************************************************************)
\* The texts that are embedded; the empty text is one of them.
CacheKeys == {"", "k1", "k2", "k3"}
\* options.cacheSize
maxSize == 2

seqHas(seq, k) == \E j \in DOMAIN seq : seq[j] = k
seqWithout(seq, k) == SelectSeq(seq, LAMBDA x : x # k)

\* Map.set: a key the map holds keeps its place, a new key goes to the end.
keysSet(keys, k) == IF seqHas(keys, k) THEN keys ELSE Append(keys, k)

\* set: if (this.cache.size >= this.maxSize)
evictionDue(keys, k) == Len(keys) >= maxSize

\* EmbeddingCache.get(key): a hit moves the key to the end of the map.
EmbeddingCacheGet(k) ==
  /\ LET hit == seqHas(embCache.keys, k)
     IN embCache' = [keys |-> IF hit THEN Append(seqWithout(embCache.keys, k), k)
                              ELSE embCache.keys,
                     used |-> IF hit THEN Append(seqWithout(embCache.used, k), k)
                              ELSE embCache.used,
                     op |-> "get", key |-> k, hit |-> hit]
  /\ UNCHANGED <<symbols, edges, ftsRows, jsVectors, storeOps, query, result, imVars,
                 filesTbl, tvVars, ctxVars, kwResult, diffOut, mkVars, wtVars, dropped>>

\* EmbeddingCache.set(key, value): at capacity the first key of the map is
\* deleted, unless it is the empty string, then the key is set.
EmbeddingCacheSet(k) ==
  /\ LET firstKey == Head(embCache.keys)
         kept == IF evictionDue(embCache.keys, k) /\ embCache.keys # <<>> /\ firstKey # ""
                 THEN Tail(embCache.keys) ELSE embCache.keys
         keys2 == keysSet(kept, k)
     IN embCache' = [keys |-> keys2,
                     used |-> Append(SelectSeq(embCache.used,
                                               LAMBDA x : x # k /\ seqHas(keys2, x)), k),
                     op |-> "set", key |-> k, hit |-> seqHas(embCache.keys, k)]
  /\ UNCHANGED <<symbols, edges, ftsRows, jsVectors, storeOps, query, result, imVars,
                 filesTbl, tvVars, ctxVars, kwResult, diffOut, mkVars, wtVars, dropped>>

\* EmbeddingCache.clear()
EmbeddingCacheClear ==
  /\ embCache.keys # <<>>
  /\ embCache' = [keys |-> <<>>, used |-> <<>>, op |-> "clear", key |-> "", hit |-> FALSE]
  /\ UNCHANGED <<symbols, edges, ftsRows, jsVectors, storeOps, query, result, imVars,
                 filesTbl, tvVars, ctxVars, kwResult, diffOut, mkVars, wtVars, dropped>>

NextEmbeddingCache ==
  \/ \E k \in CacheKeys : EmbeddingCacheGet(k)
  \/ \E k \in CacheKeys : EmbeddingCacheSet(k)
  \/ EmbeddingCacheClear

InitEmbeddingCache == Init /\ fileHashes = EmptyCache

SpecEmbeddingCache == InitEmbeddingCache /\ [][NextEmbeddingCache]_vars

(***************************************************************************)
(* FileWatcher: the debounced file watcher of the semantic search index    *)
(* (specification SpecWatcher).  Time is counted in units of half a        *)
(* debounce delay.  The public flush() is left out: nothing in the         *)
(* repository calls it.                                                    *)
(***************************************************************************)
\* config.debounceMs, in clock units
debounceMs == 2
\* Last instant of the clock.
MaxWatchTime == 6
\* File-system events reported in a run.
MaxEvents == 3
\* The eventType values of fs.watch.
EventTypes == {"rename", "change"}

wtFrame == UNCHANGED <<symbols, edges, ftsRows, jsVectors, storeOps, query, result, imVars,
                       filesTbl, tvVars, ctxVars, kwResult, diffOut, mkVars, yVars, dropped>>

\* The fs.watch callback: eventType === "rename" ? "add" : "change"
changeTypeOf(eventType) == IF eventType = "rename" THEN "add" ELSE "change"

pendingHas(pending, p) == \E j \in DOMAIN pending : pending[j].filePath = p
pendingGet(pending, p) == pending[CHOOSE j \in DOMAIN pending : pending[j].filePath = p]
\* Map.set: a path the map holds keeps its place, a new path goes to the end.
pendingSet(pending, c) ==
  IF pendingHas(pending, c.filePath)
  THEN [j \in DOMAIN pending |-> IF pending[j].filePath = c.filePath THEN c ELSE pending[j]]
  ELSE Append(pending, c)

\* A timer that is left running when one is already set.
timerKeptIfSet(timer, t) == IF timer # NoTimer THEN timer ELSE t + debounceMs

\* queueChange: clearTimeout, then setTimeout(..., debounceMs).
timerReset(timer, t) == t + debounceMs

\* queueChange: the pending map after the change is merged into it.  A
\* pending unlink is kept, an unlink replaces what is pending, and otherwise
\* the first change type is kept.
queueChange(pending, c) ==
  IF pendingHas(pending, c.filePath)
  THEN IF pendingGet(pending, c.filePath).type = "unlink" THEN pending
       ELSE IF c.type = "unlink" THEN pendingSet(pending, c)
       ELSE pending
  ELSE pendingSet(pending, c)

\* start(onChanges): returns at once on a watcher that is watching.
WatcherStart ==
  /\ ~isWatching
  /\ isWatching' = TRUE
  /\ onChanges' = TRUE
  /\ UNCHANGED <<pendingChanges, debounceTimer, flushing, clock, wLog>>
  /\ wtFrame

\* The fs.watch callback for an included file: the change is queued and the
\* debounce timer is set anew.
FsEvent(p, eventType) ==
  /\ isWatching
  /\ wLog.events < MaxEvents
  /\ LET c == [filePath |-> p, type |-> changeTypeOf(eventType)]
     IN /\ pendingChanges' = queueChange(pendingChanges, c)
        /\ debounceTimer' = IF /\ pendingHas(pendingChanges, p)
                               /\ pendingGet(pendingChanges, p).type = "unlink"
                            THEN debounceTimer  \* queueChange has returned
                            ELSE timerReset(debounceTimer, clock)
        /\ wLog' = [wLog EXCEPT !.events = @ + 1, !.last = clock,
                                !.seen[p] = @ \cup {c.type}]
  /\ UNCHANGED <<isWatching, onChanges, flushing, clock>>
  /\ wtFrame

\* Time passes.  A timer that is due may run late.
Tick ==
  /\ clock < MaxWatchTime
  /\ clock' = clock + 1
  /\ UNCHANGED <<isWatching, onChanges, pendingChanges, debounceTimer, flushing, wLog>>
  /\ wtFrame

\* The debounce timer runs flushChanges(): the pending changes are taken and
\* the call suspends at the first await file.exists().
TimerFires ==
  /\ debounceTimer # NoTimer
  /\ clock >= debounceTimer
  /\ debounceTimer' = NoTimer
  /\ pendingChanges' = <<>>
  /\ flushing' = IF pendingChanges = <<>> THEN flushing
                 ELSE Append(flushing, [changes |-> pendingChanges, verifiedChanges |-> <<>>,
                                        converted |-> {}, at |-> clock,
                                        last |-> wLog.last, seen |-> wLog.seen])
  /\ wLog' = [wLog EXCEPT !.seen = [p \in WatchPaths |-> {}]]
  /\ UNCHANGED <<isWatching, onChanges, clock>>
  /\ wtFrame

\* flushChanges of call k resumes: the change at hand is kept, or turned into
\* an unlink when the file is not there; after the last change the callback
\* is invoked if it is set.
FlushVerify(k, exists) ==
  /\ k \in DOMAIN flushing
  /\ LET f == flushing[k]
         change == f.changes[Len(f.verifiedChanges) + 1]
         turned == change.type # "unlink" /\ ~exists
         verified == Append(f.verifiedChanges,
                            IF turned THEN [change EXCEPT !.type = "unlink"] ELSE change)
         conv == IF turned THEN f.converted \cup {change.filePath} ELSE f.converted
     IN IF Len(verified) < Len(f.changes)
        THEN /\ flushing' = [flushing EXCEPT ![k].verifiedChanges = verified,
                                             ![k].converted = conv]
             /\ UNCHANGED wLog
        ELSE /\ flushing' = [j \in 1..(Len(flushing) - 1) |->
                               IF j < k THEN flushing[j] ELSE flushing[j + 1]]
             /\ wLog' = IF onChanges
                        THEN [wLog EXCEPT !.delivered =
                                Append(@, [changes |-> verified, converted |-> conv,
                                           flushedAt |-> f.at, last |-> f.last,
                                           seen |-> f.seen, watching |-> isWatching])]
                        ELSE wLog
  /\ UNCHANGED <<isWatching, onChanges, pendingChanges, debounceTimer, clock>>
  /\ wtFrame

\* stop(): the timer is cleared, the fs watcher closed, the pending changes dropped.
WatcherStop ==
  /\ isWatching
  /\ debounceTimer' = NoTimer
  /\ pendingChanges' = <<>>
  /\ isWatching' = FALSE
  /\ wLog' = [wLog EXCEPT !.seen = [p \in WatchPaths |-> {}]]
  /\ UNCHANGED <<onChanges, flushing, clock>>
  /\ wtFrame

NextWatcher ==
  \/ WatcherStart
  \/ \E p \in WatchPaths, e \in EventTypes : FsEvent(p, e)
  \/ Tick
  \/ TimerFires
  \/ \E k \in 1..MaxEvents, exists \in BOOLEAN : FlushVerify(k, exists)
  \/ WatcherStop

InitWatcher == Init /\ fileHashes = EmptyCache

SpecWatcher == InitWatcher /\ [][NextWatcher]_vars

(***************************************************************************)
(* Properties of the store and of the smart query                          *)
(***************************************************************************)
\* C5: a finished query for branch b returns only symbols and edges stored
\* under branch b.
C5_ResultWithinBranch ==
  query.stage = "idle" =>
    /\ \A k \in DOMAIN result.symbols : result.symbols[k].branch = query.branch
    /\ \A e \in result.edges : e.branch = query.branch

\* C10: the endpoints of every edge are symbols that exist in the edge's own
\* branch or are marked external; an edge never outlives the row of either
\* endpoint.
C10_EdgeEndpointsInBranch ==
  \A e \in EdgeIds :
    edges[e].in =>
      \A i \in {edges[e].src, edges[e].dst} :
        symbols[i].in /\ (symbols[i].branch = edges[e].branch \/ symbols[i].is_external)

\* C12: each symbol id has at most one full-text row (js_vectors is keyed by
\* symbol_id, so it holds at most one vector row per id by construction).
C12_OneRowPerSymbol ==
  \A i \in SymIds :
    Cardinality({k \in DOMAIN ftsRows : ftsRows[k] = i}) <= 1

\* C15: the persisted status of a file record changes only along
\* pending -> indexing -> indexed or indexing -> error (a record starts as
\* pending), and a record in status error carries the error message.
C15_StatusLifecycle ==
  [][\A f \in SrcFiles :
       LET old == IF filesTbl[f].in THEN filesTbl[f].status ELSE "none"
           new == IF filesTbl'[f].in THEN filesTbl'[f].status ELSE "none"
       IN /\ (old # new /\ new # "none")
               => <<old, new>> \in {<<"none", "pending">>, <<"pending", "indexing">>,
                                    <<"indexing", "indexed">>, <<"indexing", "error">>}
          /\ new = "error" => filesTbl'[f].err]_vars

\* C17: graph expansion and impact analysis terminate on every finite edge
\* graph, cycles and self-calls included, and fetch the edges of each symbol
\* at most once per traversal.
C17_TraversalTerminates ==
  /\ [](\A i \in GraphSyms : expanded[i] <= 1)
  /\ (travPc = "run") ~> (travPc = "done")

\* A traversal has returned on a graph with the cycle n0 -> n1 -> n2 -> n0
\* and the self-call of n1, having expanded every symbol of the cycle.
C17_Witness ==
  /\ travPc = "done"
  /\ \A e \in {"g1", "g2", "g5", "g6"} : edges[e].in
  /\ \A i \in {"n0", "n1", "n2"} : expanded[i] = 1
  /\ nodes["n2"] = 2

\* The graph_depth a call of the graph expander asked for.
graphDepthAsked == orDefault(travOpt.requested, DEFAULT_GRAPH_DEPTH)

\* C18: graph expansion adds no node at a depth greater than
\* min(graph_depth, 3); with graph_depth = 0 the result is the seed symbol
\* alone, without any edge.
C18_DepthBounded ==
  (travPc # "idle" /\ travOpt.kind = "expand")
  => /\ \A i \in GraphSyms : nodes[i] <= min(graphDepthAsked, 3)
     /\ maxDepthReached <= min(graphDepthAsked, 3)
     /\ graphDepthAsked = 0
          => /\ {i \in GraphSyms : nodes[i] >= 0} = {travOpt.root}
             /\ nodes[travOpt.root] = 0
             /\ allEdges = {}

\* An expansion asked for depth 4 along the chain n0 -> n1 -> n2 -> n3 -> n4
\* has returned: n3 is in the result at depth 3 and n4 is not in it.
C18_Witness ==
  /\ travPc = "done"
  /\ travOpt.kind = "expand" /\ travOpt.requested = 4
  /\ travOpt.root = "n0" /\ ~travOpt.callers
  /\ \A e \in {"g1", "g2", "g3", "g4"} : edges[e].in
  /\ nodes["n3"] = 3
  /\ nodes["n4"] = -1

\* The edges of symbol i in the direction of the traversal whose confidence
\* reaches the threshold asked for.
eligibleEdges(i) ==
  {e \in DOMAIN edges :
     /\ edges[e].in
     /\ edges[e].branch = travOpt.branch
     /\ (IF travOpt.callers THEN edges[e].dst ELSE edges[e].src) = i
     /\ edges[e].conf >= travOpt.confidenceThreshold}

\* C19: at each expanded node the edges followed are the max_fan_out most
\* confident edges among those whose confidence is at least
\* confidence_threshold, and no edge below the threshold is followed or
\* returned.
C19_FollowedEdgesAreTopConfident ==
  (travPc # "idle" /\ travOpt.kind = "expand")
  => /\ \A i \in GraphSyms :
          expanded[i] >= 1
          => /\ followed[i] \subseteq eligibleEdges(i)
             /\ Cardinality(followed[i])
                  = min(travOpt.maxFanOut, Cardinality(eligibleEdges(i)))
             /\ \A x \in followed[i], y \in eligibleEdges(i) \ followed[i] :
                  edges[x].conf >= edges[y].conf
     /\ \A e \in allEdges : edges[e].conf >= travOpt.confidenceThreshold
     /\ allEdges = UNION {followed[i] : i \in GraphSyms}

\* n0 calls n1 (0.6), n2 (0.3) and n3 (0.9); with max_fan_out = 1 and the
\* default threshold the expansion of n0 has followed the call of n3 only.
C19_Witness ==
  /\ travPc = "done"
  /\ travOpt.kind = "expand" /\ travOpt.root = "n0" /\ ~travOpt.callers
  /\ travOpt.maxFanOut = 1
  /\ travOpt.confidenceThreshold = DEFAULT_CONFIDENCE_THRESHOLD
  /\ \A e \in {"g1", "g7", "g8"} : edges[e].in
  /\ followed["n0"] = {"g8"}
  /\ truncatedNodes >= 1

\* C20: the context string assembled by search never exceeds the token
\* budget: ceil(len(context) / 4) <= max_tokens.
C20_ContextWithinBudget ==
  ctxOut.done => estimateTokens(ctxOut.length) <= ctxIn.maxTokens

\* The tokens of the first j symbol blocks, each taken in full.
RECURSIVE fullTokens(_, _)
fullTokens(lens, j) ==
  IF j = 0 THEN 0 ELSE fullTokens(lens, j - 1) + (lens[j] + 3) \div 4

\* The first symbol whose full block would exceed maxTokens, 0 if none.
firstOverflow(lens, maxTokens) ==
  IF \E k \in DOMAIN lens : fullTokens(lens, k) > maxTokens
  THEN CHOOSE k \in DOMAIN lens :
         /\ fullTokens(lens, k) > maxTokens
         /\ \A j \in 1..(k - 1) : fullTokens(lens, j) <= maxTokens
  ELSE 0

\* C21: when the full block of a symbol would exceed max_tokens, the symbol
\* is included, truncated to the remaining budget, if and only if the
\* remaining budget is at least 100 tokens, and no later symbol is included.
C21_TruncatedIffRoomAtLeast100 ==
  ctxOut.done =>
    LET k == firstOverflow(ctxIn.lens, ctxIn.maxTokens)
        remaining == ctxIn.maxTokens - fullTokens(ctxIn.lens, k - 1)
    IN k > 0 =>
         /\ ctxOut.n <= k
         /\ (ctxOut.n = k) <=> (remaining >= 100)
         /\ ctxOut.n = k => ctxOut.tokenCount = ctxIn.maxTokens

\* The symbol ids in ascending order.
SortedIds == <<"s1", "s2">>
idBefore(i, j) ==
  \E a, b \in DOMAIN SortedIds : SortedIds[a] = i /\ SortedIds[b] = j /\ a < b

retrievedIds(vec, kw) == {vec[k] : k \in DOMAIN vec} \cup {kw[k] : k \in DOMAIN kw}

\* C22: two searches with identical inputs over an unchanged store return
\* identical results in identical order, symbols of equal fused score being
\* ordered by symbol_id; checked on the result of each completed search:
\* retrieved symbols of equal score appear in ascending order of their id.
C22_TiesOrderedBySymbolId ==
  [][(query.stage = "fuse" /\ query'.stage = "idle")
     => \A j, k \in DOMAIN result'.symbols :
          LET a == result'.symbols[j].id
              b == result'.symbols[k].id
          IN (/\ j < k
              /\ {a, b} \subseteq retrievedIds(query.vec, query.kw)
              /\ computeRrfScore(a, query.vec, query.kw)
                   = computeRrfScore(b, query.vec, query.kw))
             => idBefore(a, b)]_vars

\* The 1-indexed rank of id i in a list that contains it.
rankIn(seq, i) ==
  CHOOSE k \in DOMAIN seq : seq[k] = i /\ \A j \in 1..(k - 1) : seq[j] # i

\* One term 1 / (60 + rank) for each list that contains i, as a multiple of
\* 1/scale.
oneTermPerList(i, vec, kw) ==
  LET n == IF Len(vec) < Len(kw) THEN Len(kw) ELSE Len(vec)
      term(seq) == IF \E k \in DOMAIN seq : seq[k] = i
                   THEN rrfScale(n) \div (60 + rankIn(seq, i)) ELSE 0
  IN term(vec) + term(kw)

\* C23: RRF fusion returns each retrieved symbol id exactly once, scored as
\* the sum, over the lists that contain it, of one term 1 / (60 + rank in
\* that list), in non-increasing score order.
C23_RrfScoresOneTermPerList ==
  query.stage = "fuse" =>
    LET fused == fuseWithRrf(query.vec, query.kw)
    IN /\ \A i \in retrievedIds(query.vec, query.kw) :
            /\ Cardinality({k \in DOMAIN fused : fused[k] = i}) = 1
            /\ computeRrfScore(i, query.vec, query.kw) = oneTermPerList(i, query.vec, query.kw)
       /\ \A k \in DOMAIN fused : fused[k] \in retrievedIds(query.vec, query.kw)
       /\ \A j, k \in DOMAIN fused :
            j < k => computeRrfScore(fused[j], query.vec, query.kw)
                       >= computeRrfScore(fused[k], query.vec, query.kw)

count(q, c) == Cardinality({k \in DOMAIN q : q[k] = c})

\* A malformed full-text query: an unbalanced quote, unbalanced parentheses,
\* or a star in front of a parenthesis.
malformed(q) ==
  \/ count(q, "\"") % 2 = 1
  \/ count(q, "(") # count(q, ")")
  \/ \E k \in 1..(Len(q) - 1) : q[k] = "*" /\ q[k + 1] = "("

\* C24: keyword search on a malformed full-text query string returns an
\* empty result and never raises.
C24_MalformedQueryGivesNothing ==
  (kwResult.done /\ malformed(kwResult.text))
  => (kwResult.rows = <<>> /\ ~kwResult.raised)

\* The symbols from which some symbol of S is reachable along at most d
\* edges of branch b whose confidence is at least thr, with S itself.
RECURSIVE callersWithin(_, _, _, _)
callersWithin(S, d, thr, b) ==
  IF d <= 0 THEN S
  ELSE LET more == {edges[e].src : e \in {x \in GraphEdgeIds :
                                           /\ edges[x].in
                                           /\ edges[x].branch = b
                                           /\ edges[x].conf >= thr
                                           /\ edges[x].dst \in S}}
       IN IF more \subseteq S THEN S ELSE callersWithin(S \cup more, d - 1, thr, b)

\* The symbols an impact analysis reported as affected.
affectedIds == {impact.affectedSymbols[k].symbol : k \in DOMAIN impact.affectedSymbols}

\* C25: an impact analysis follows caller edges only, and the number of
\* transitive dependents it returns is the number of distinct symbols other
\* than the root from which the root is reachable, within the depth limit,
\* along edges whose confidence is at least the threshold.
C25_TransitiveDependentsAreCallersWithinDepth ==
  (travPc = "done" /\ travOpt.kind = "impact")
  => LET expected == callersWithin({travOpt.root}, travOpt.maxDepth,
                                   travOpt.confidenceThreshold, travOpt.branch)
                       \ {travOpt.root}
     IN /\ Len(impact.affectedSymbols) = Cardinality(expected)
        /\ affectedIds = expected
        /\ \A i \in GraphSyms : \A e \in followed[i] : edges[e].dst = i

\* An impact analysis of n4 with the default options has returned on the
\* chain n0 -> n1 -> n2 -> n3 -> n4 in which n0 also calls n2 with a
\* confidence below the threshold: the four callers are counted, one direct.
C25_Witness ==
  /\ travPc = "done" /\ travOpt.kind = "impact"
  /\ travOpt.root = "n4"
  /\ travOpt.requested = Undefined
  /\ travOpt.confidenceThreshold = DEFAULT_CONFIDENCE_THRESHOLD
  /\ \A e \in {"g1", "g2", "g3", "g4", "g7"} : edges[e].in
  /\ ~edges["g8"].in
  /\ Len(impact.affectedSymbols) = 4
  /\ impact.directDependents = 1

\* Some affected symbol was updated after the edge through which the
\* analysis reached it.
staleCallerVisited ==
  \E i \in affectedIds : \E e \in allEdges :
    /\ edges[e].src = i
    /\ nodes[edges[e].dst] = nodes[i] - 1
    /\ symbols[i].updated_at > edges[e].updated_at

\* Callers exist beyond the depth cap: a symbol reached at the depth cap has
\* a caller, through an edge that passes the threshold, that was not visited.
callersBeyondCap ==
  \E i \in GraphSyms :
    /\ nodes[i] = travOpt.maxDepth
    /\ \E e \in filterEdgesByConfidence(getCallers(i, travOpt.branch),
                                         travOpt.confidenceThreshold) :
         edges[e].src \notin visited

\* A caller edge that was followed leads to a symbol missing from the store.
callerSymbolMissing == \E e \in allEdges : ~symbols[edges[e].src].in

\* C26: the confidence of an impact analysis is degraded iff some visited
\* caller symbol is newer than the edge through which it was reached;
\* otherwise medium iff callers exist beyond the depth cap or a caller
\* symbol is missing from the store; otherwise high.
C26_ConfidenceFromStaleAndPartial ==
  (travPc = "done" /\ travOpt.kind = "impact")
  => impact.confidence = IF staleCallerVisited THEN "degraded"
                         ELSE IF callersBeyondCap \/ callerSymbolMissing THEN "medium"
                         ELSE "high"

\* The symbols of branch a whose qualified name branch b does not hold.
presentOnlyIn(a, b) ==
  {i \in DiffSyms : /\ rowIn(i, a)
                    /\ ~\E j \in DiffSyms :
                          /\ rowIn(j, b)
                          /\ symbols[j].qualified_name = symbols[i].qualified_name}

\* The symbols of branch a whose qualified name branch b holds with another
\* content hash.
presentInBothChanged(a, b) ==
  {i \in DiffSyms : /\ rowIn(i, a)
                    /\ \E j \in DiffSyms :
                          /\ rowIn(j, b)
                          /\ symbols[j].qualified_name = symbols[i].qualified_name
                          /\ symbols[j].content_hash # symbols[i].content_hash}

\* C27: diff(source, target) reports as added the symbols present in source
\* only, as removed those present in target only, as modified those present
\* in both with different content hashes (by qualified name), and its
\* summary counts are the numbers of such symbols.
C27_DiffClassifiesByQualifiedName ==
  diffOut.done =>
    LET s == diffOut.source
        t == diffOut.target
    IN /\ seqToSet(diffOut.added) = presentOnlyIn(s, t)
       /\ seqToSet(diffOut.removed) = presentOnlyIn(t, s)
       /\ {diffOut.modified[k][1] : k \in DOMAIN diffOut.modified}
            = presentInBothChanged(s, t)
       /\ diffOut.summary.added = Cardinality(presentOnlyIn(s, t))
       /\ diffOut.summary.removed = Cardinality(presentOnlyIn(t, s))
       /\ diffOut.summary.modified = Cardinality(presentInBothChanged(s, t))

\* The file paths of the symbols a diff reported as added, removed or
\* modified.
reportedFiles ==
  {symbols[i].file_path :
     i \in seqToSet(diffOut.added) \cup seqToSet(diffOut.removed)
           \cup {diffOut.modified[k][1] : k \in DOMAIN diffOut.modified}}

\* C28: the affected files of a diff are the file paths of the symbols it
\* reports as added, removed or modified, and no other path.
C28_AffectedFilesAreReportedFiles ==
  diffOut.done => diffOut.affectedFiles = reportedFiles

\* The (path, hash) pairs a cache holds.
pairsOf(o) == seqToSet(caches[o].entries)

\* C29: two Merkle caches that hold the same set of (path, hash) pairs have
\* the same root hash once build_tree has run on each, whatever the order in
\* which their entries were inserted, updated or loaded.
C29_RootHashIndependentOfOrder ==
  \A o1, o2 \in CacheObjects :
    (/\ caches[o1].made /\ caches[o2].made
     /\ caches[o1].fresh /\ caches[o2].fresh
     /\ pairsOf(o1) = pairsOf(o2))
    => caches[o1].rootHash = caches[o2].rootHash

\* Two caches hold the same two files with different hashes, inserted in
\* opposite orders, and the tree of each has been built.
C29_Witness ==
  /\ caches["A"].made /\ caches["B"].made
  /\ caches["A"].fresh /\ caches["B"].fresh
  /\ Len(caches["A"].entries) = 2
  /\ pairsOf("A") = pairsOf("B")
  /\ caches["A"].entries # caches["B"].entries
  /\ caches["A"].entries[1].hash # caches["A"].entries[2].hash

\* C30: the dirty flag of a Merkle cache goes from dirty to clean only in a
\* step that runs build_tree on it; load, save, hash_file, find_changed,
\* update_file and remove_file never clear it.
C30_DirtyClearedOnlyByBuildTree ==
  [][\A o \in CacheObjects :
       (caches[o].made /\ caches[o].dirty /\ ~caches'[o].dirty)
       => caches'[o] = buildTree(caches[o])]_vars

\* The cache made with new holds files, which only operations that set the
\* flag can add, and is clean again: its tree was built after the last change
\* and the cache was saved since.
C30_Witness ==
  /\ caches["A"].entries # <<>>
  /\ ~caches["A"].dirty
  /\ caches["A"].fresh
  /\ cacheJson.ex /\ cacheJson.entries = caches["A"].entries

\* The keys a call removed from the embedding cache.
evictedKeys == seqToSet(embCache.keys) \ seqToSet(embCache'.keys)

\* C31: the embedding cache evicts an entry only when a new key is set while
\* it holds capacity entries, and the entry evicted is the least recently
\* used one, a get hit and a set both making their key the most recently
\* used.
C31_EvictsLeastRecentlyUsedAtCapacity ==
  [][(embCache'.op # "clear" /\ evictedKeys # {})
     => /\ embCache'.op = "set"
        /\ ~seqHas(embCache.keys, embCache'.key)
        /\ Len(embCache.keys) = maxSize
        /\ evictedKeys = {Head(embCache.used)}]_vars

\* The paths of a batch of changes, in order.
batchPaths(changes) == [j \in DOMAIN changes |-> changes[j].filePath]
distinctSeq(seq) == \A i, j \in DOMAIN seq : i # j => seq[i] # seq[j]
deliveredBatches == {wLog.delivered[j] : j \in DOMAIN wLog.delivered}

\* C32: a batch reaches the callback only when flushChanges ran at least
\* debounceMs after the latest event queued for it, it holds every path for
\* which an event was queued in that window, and it holds each path once.
C32_BatchAfterQuietDebounce ==
  \A b \in deliveredBatches :
    /\ b.flushedAt - b.last >= debounceMs
    /\ seqToSet(batchPaths(b.changes)) = {p \in WatchPaths : b.seen[p] # {}}
    /\ distinctSeq(batchPaths(b.changes))

\* Events for both paths, the later one within the debounce delay of the
\* first, were delivered in one batch.
C32_Witness ==
  \E b \in deliveredBatches :
    /\ Len(b.changes) = 2
    /\ wLog.events = 3
    /\ b.last > 0

\* delete > add > change
typePriority(t) == IF t = "unlink" THEN 3 ELSE IF t = "add" THEN 2 ELSE 1

\* C38: the change delivered for a path whose file was found to exist has
\* the highest-priority type among the events queued for the path in the
\* debounce window.
C38_DeliveredTypeHasHighestPriority ==
  \A b \in deliveredBatches : \A j \in DOMAIN b.changes :
    LET c == b.changes[j]
    IN c.filePath \notin b.converted
         => \A t \in b.seen[c.filePath] : typePriority(c.type) >= typePriority(t)

\* C40: the callback is never invoked on a watcher that stop() has stopped.
C40_NoCallbackAfterStop ==
  \A b \in deliveredBatches : b.watching

\* A run that writes to the store and the Merkle cache: an update or rebuild
\* run, the delta indexing of ensureFresh from the moment it sets the flag,
\* or handleFileChanges while it indexes files and saves the cache.
mutatingRun(p) ==
  \/ indexingRun(p)
  \/ p \in {"q", "w"} /\ pc[p] \in {"index", "save", "savefail"}

\* C33: at most one run writes to the store and the Merkle cache at a time,
\* and isIndexing is set whenever such a run is in progress.
C33_OneMutatingRunUnderFlag ==
  /\ Cardinality({p \in Procs : mutatingRun(p)}) <= 1
  /\ (\E p \in Procs : mutatingRun(p)) => isIndexing

\* C34: an update() or rebuild() called while the flag is set is rejected in
\* the call itself and leaves the store, the Merkle cache, the cache file,
\* the flag and the operations in progress as they were.
C34_RejectedCallHasNoEffect ==
  [][\A p \in Upd :
       (pc[p] = "idle" /\ (pc'[p] # "idle" \/ res'[p] = "busy") /\ isIndexing)
       => /\ res'[p] = "busy"
          /\ pc'[p] = "idle"
          /\ UNCHANGED <<store, fileHashes, stale, cacheFile, isIndexing, job, files>>
          /\ \A o \in Procs \ {p} : pc'[o] = pc[o]]_vars

quiescent == \A p \in Procs : pc[p] = "idle"

\* C35: when no operation is in progress, a file the Merkle cache records
\* with the hash of its current content is indexed in the store with that
\* content.
C35_CachedOnlyOnceIndexed ==
  quiescent =>
    \A f \in Files :
      (fs[f].ex /\ fileHashes[f].in /\ fileHashes[f].hash = hashContent(fs[f].c))
      => indexedNow(f)

\* C36: a changed file of a batch that handleFileChanges skipped is selected
\* for indexing by an update() started afterwards, as long as the file has
\* not been changed again and is not indexed yet.
C36_DroppedChangeIndexedLater ==
  [][(pc["u"] = "classify" /\ pc'["u"] # "classify" /\ res'["u"] # "raised")
       => \A f \in files["u"] :
            (dropped[f] = "retried" /\ fs[f].ex /\ ~indexedNow(f))
            => job'["u"][f].ph \in {"read", "queued"}]_vars

\* The branches into which the step upserts a symbol row.
upsertInto(b) ==
  \E j \in SymIds : symbols'[j].in /\ symbols'[j] # symbols[j] /\ symbols'[j].branch = b

\* C37: an upsert of a symbol into branch b leaves every symbol row of
\* another branch as it was.
C37_UpsertKeepsOtherBranches ==
  [][\A b \in Branches :
       upsertInto(b)
       => \A i \in SymIds :
            (symbols[i].in /\ symbols[i].branch # b) => symbols'[i] = symbols[i]]_vars

\* The ids of the symbols of a query result.
resultIds(r) == {r.symbols[k].id : k \in DOMAIN r.symbols}

\* C39: both endpoints of every edge of a search result are symbols of that
\* result.
C39_ResultEdgesJoinResultSymbols ==
  [][(query.stage = "fuse" /\ query'.stage = "idle")
       => \A e \in result'.edges :
            /\ edges[e.id].src \in resultIds(result')
            /\ edges[e.id].dst \in resultIds(result')]_vars

=============================================================================
